---------------------------- MODULE Spec2Model ----------------------------
(***************************************************************************)
(* EdgeScope trading journal: a state-machine model of the five            *)
(* self-contained variants of the application found in the repository.     *)
(*                                                                         *)
(*   variant A   src/script.js            lines    1 ..  786               *)
(*               (records, edit modal, result form with image read)        *)
(*   variant B   src/script.js            lines  787 .. 1692               *)
(*               (getTrades/saveTrades, editingRecordId, validateEntry)    *)
(*   variant C   src/unnamed/part_000     (single record form, add-only    *)
(*               import)                                                   *)
(*   variant D   src/unnamed/part_001     lines    1 .. 1032               *)
(*               (tradeRecords, saveExitResult, overwrite import)          *)
(*   variant E   src/unnamed/part_001     lines 1033 .. 2252               *)
(*               (tradeRecords, updateResult, importRecords)               *)
(*                                                                         *)
(* JavaScript values are tagged records, so that null, NaN, numbers and    *)
(* strings can be told apart: Null, NaN, Num(n), Str(s).                   *)
(***************************************************************************)
EXTENDS Integers, Sequences, FiniteSets, TLC

VARIABLES
    records,         \* the in-memory collection (records / tradeRecords)
    stored,          \* the collection persisted in localStorage
    editingEntryId,  \* editingEntryId / editingRecordId (Null when unset)
    editingExitId,   \* editingExitId / the result select's value
    pending,         \* image reads started by A's result form, not yet loaded
    lastPrediction,  \* the prediction A's entry form keeps between clicks
    now,             \* the clock read by new Date()
    nextId,          \* the next identifier generateId / generateUUID returns
    last,            \* the handler that ran last and what it reported
    tabs,            \* the tab buttons and sections shown as active
    view,            \* what the page displays: table rows, chart feed, previews
    form             \* the fields of the entry form and the image preview

vars == <<records, stored, editingEntryId, editingExitId, pending,
          lastPrediction, now, nextId, last, tabs, view,
          form>>

----------------------------------------------------------------------------
(* Bounds of the model.                                                    *)

MaxRecords == 2
MaxClock == 3
MaxIds == 2
MaxPending == 1

----------------------------------------------------------------------------
(* JavaScript values.                                                      *)

Null == [t |-> "null"]
NaN == [t |-> "nan"]
Num(n) == [t |-> "num", v |-> n]
Str(s) == [t |-> "str", v |-> s]
Empty == Str("")

IsNum(x) == x.t = "num"

\* JavaScript truthiness of a tagged value.
Truthy(x) ==
    CASE x.t = "null" -> FALSE
      [] x.t = "nan" -> FALSE
      [] x.t = "num" -> x.v # 0
      [] x.t = "str" -> x.v # ""

\* x || y
OrElse(x, y) == IF Truthy(x) THEN x ELSE y


----------------------------------------------------------------------------
(* Form inputs.  A numeric input holds Empty or Num(n); a text input or    *)
(* select holds a string.  The indicator profile is the sequence of the    *)
(* eleven categorical readings in the order of the features array:         *)
(* prevWave, trend_5_20_40, price_vs_ema200, ema_band_color, zone,         *)
(* cmf_sign, cmf_sma_dir, macd_state, roc_sign, roc_sma_dir, rsi_zone.     *)

NumFeatures == 11

P0 == <<"HH", "Stage1", "above", "dark_green", "pivot", "positive", "gc",
        "post_gc", "positive", "up", "over70">>
P1 == <<"HH", "Stage1", "above", "dark_green", "pivot", "positive", "dc",
        "post_dc", "negative", "down", "under30">>
PMissing == [P0 EXCEPT ![5] = ""]

FormLong ==
    [symbol |-> "nk225mc", directionPlanned |-> "long",
     entryPrice |-> Num(100), size |-> Num(2), feePerUnit |-> Num(5),
     ind |-> P0, minWinRate |-> Num(30), marketMemo |-> "m1",
     image |-> Null]
FormShort ==
    [symbol |-> "fx", directionPlanned |-> "short",
     entryPrice |-> Num(110), size |-> Num(1), feePerUnit |-> Num(5),
     ind |-> P1, minWinRate |-> Empty, marketMemo |-> "m2",
     image |-> Str("img")]
FormNoPrice == [FormLong EXCEPT !.entryPrice = Empty]
FormNoSize == [FormLong EXCEPT !.size = Empty]
FormNoFee == [FormLong EXCEPT !.feePerUnit = Empty]
FormNoSymbol == [FormLong EXCEPT !.symbol = ""]
FormNoIndicator == [FormLong EXCEPT !.ind = PMissing]

ValidEntryForms == {FormLong, FormShort}
InvalidEntryForms ==
    {FormNoPrice, FormNoSize, FormNoFee, FormNoSymbol, FormNoIndicator}
AllEntryForms == ValidEntryForms \cup InvalidEntryForms
\* The forms offered to the handlers that store whatever the form holds.
EntryForms == {FormLong, FormShort, FormNoPrice}

\* A required field of the entry form is missing: entry price, size, fee
\* per unit, instrument, or one of the indicator readings.
RequiredMissing(f) ==
    \/ f.entryPrice = Empty
    \/ f.size = Empty
    \/ f.feePerUnit = Empty
    \/ f.symbol = ""
    \/ \E k \in 2..NumFeatures : f.ind[k] = ""

\* The exit form.  size and feePerUnit are inputs of B's form only, profit
\* of A's (an editable text field), image of A's file input.
ExitFull ==
    [datetimeExit |-> Str("x1"), exitPrice |-> Num(120),
     directionTaken |-> "long", highDuringTrade |-> Num(130),
     lowDuringTrade |-> Num(90), note |-> "r1",
     size |-> Num(2), feePerUnit |-> Num(5), profit |-> Num(30),
     image |-> Null]
ExitShort ==
    [ExitFull EXCEPT !.directionTaken = "short", !.exitPrice = Num(90),
                     !.highDuringTrade = Empty, !.size = Num(1),
                     !.profit = Num(7)]
ExitNoDate == [ExitFull EXCEPT !.datetimeExit = Empty]
ExitNoPrice == [ExitFull EXCEPT !.exitPrice = Empty, !.profit = Empty]
ExitBlank ==
    [datetimeExit |-> Empty, exitPrice |-> Empty, directionTaken |-> "",
     highDuringTrade |-> Empty, lowDuringTrade |-> Empty, note |-> "",
     size |-> Empty, feePerUnit |-> Empty, profit |-> Empty, image |-> Null]
ExitWithImage == [ExitFull EXCEPT !.image = Str("img")]

AllExitForms == {ExitFull, ExitShort, ExitNoDate, ExitNoPrice, ExitBlank}
\* The forms offered where the direction taken is not an input of the form.
ExitForms == {ExitFull, ExitBlank}

----------------------------------------------------------------------------
(* Helpers on the collection.                                              *)

IndexOf(recs, id) ==
    IF \E i \in DOMAIN recs : recs[i].id = id
    THEN CHOOSE i \in DOMAIN recs :
             recs[i].id = id /\ \A j \in DOMAIN recs : recs[j].id = id => i <= j
    ELSE 0

Ids(recs) == {recs[i].id : i \in DOMAIN recs}

RemoveAt(recs, i) ==
    [j \in 1..(Len(recs) - 1) |-> IF j < i THEN recs[j] ELSE recs[j + 1]]

\* profit > 0 in JavaScript: false for null and NaN.
Positive(x) == IsNum(x) /\ x.v > 0

\* v === '' ? null : parseFloat(v)   (numVal, getNumber)
NumOrNull(x) == IF x = Empty THEN Null ELSE x

\* parseFloat(v)
ParseFloat(x) == IF x = Empty THEN NaN ELSE x

\* JSON.parse(JSON.stringify(r)): NaN is written as null.
JsonValue(x) == IF x = NaN THEN Null ELSE x
JsonRecord(r) ==
    [r EXCEPT !.entryPrice = JsonValue(@), !.size = JsonValue(@),
              !.feePerUnit = JsonValue(@), !.exitPrice = JsonValue(@),
              !.highDuringTrade = JsonValue(@),
              !.lowDuringTrade = JsonValue(@), !.profit = JsonValue(@)]
Stringify(recs) == [i \in DOMAIN recs |-> JsonRecord(recs[i])]

\* getMultiplier (E), the multiplier chain of saveExitResult (D)
getMultiplier(symbol) ==
    CASE symbol = "nk225mc" -> 10
      [] symbol = "nk225m" -> 100
      [] symbol = "nk225" -> 1000
      [] OTHER -> 1

\* The profit formula of the result forms, on numbers.
baseProfit(direction, entryPrice, exitPrice, feePerUnit, size) ==
    CASE direction = "long" -> (exitPrice - entryPrice - feePerUnit) * size
      [] direction = "short" -> (entryPrice - exitPrice - feePerUnit) * size
      [] OTHER -> 0

\* The direction held in a directionTaken value ("" for null).
DirOf(x) == IF x.t = "str" THEN x.v ELSE ""

----------------------------------------------------------------------------
(* Import files.  A file is unparseable text, a bare JSON array, or an     *)
(* object whose version is 1, another number or absent and whose records   *)
(* member is an array, a scalar or absent.  An element of the array is a   *)
(* record or null; a null element follows a record, so the collection      *)
(* holds a record when the merge reaches it.                               *)

ForeignId == MaxIds + 1

\* A closed record written by another installation.
ImportedClosed(id, u) ==
    [id |-> id, createdAt |-> 1, updatedAt |-> u,
     symbol |-> "fx", directionPlanned |-> "short",
     entryPrice |-> Num(110), size |-> Num(1), feePerUnit |-> Num(5),
     ind |-> P1, minWinRate |-> Null, marketMemo |-> "imported",
     imageData |-> Null, recommendation |-> Str("flat"),
     hasResult |-> TRUE, datetimeExit |-> Str("x0"), exitPrice |-> Num(90),
     directionTaken |-> Str("short"), highDuringTrade |-> Null,
     lowDuringTrade |-> Null, profit |-> Num(15), resultMemo |-> Str("")]

NullElement == [id |-> 0]
IsNullElement(e) == e = NullElement

FileItems ==
    { <<>>,
      <<ImportedClosed(ForeignId, 1)>>,
      <<ImportedClosed(ForeignId, 2)>>,
      <<ImportedClosed(ForeignId, 1), ImportedClosed(ForeignId, 2)>>,
      <<ImportedClosed(ForeignId, 2), NullElement>> }

File(kind, version, members, items) ==
    [kind |-> kind, version |-> version, members |-> members, items |-> items]

Files ==
    {File("garbage", Null, "absent", <<>>)}
    \cup {File("array", Null, "absent", it) :
            it \in {<<>>, <<ImportedClosed(ForeignId, 1)>>,
                    <<ImportedClosed(ForeignId, 1),
                      ImportedClosed(ForeignId, 2)>>}}
    \cup {File("object", Num(1), "array", it) : it \in FileItems}
    \cup {File("object", v, "array", <<ImportedClosed(ForeignId, 1)>>) :
            v \in {Num(2), Str("1"), Null}}
    \cup {File("object", Num(1), m, <<>>) : m \in {"absent", "scalar"}}

\* The envelope of the export format: an object with version 1 and an
\* array of records.
ValidEnvelope(file) ==
    file.kind = "object" /\ file.version = Num(1) /\ file.members = "array"

FileClass(file) ==
    CASE file.kind = "garbage" -> "garbage"
      [] file.kind = "array" -> "array"
      [] ValidEnvelope(file) -> "valid"
      [] OTHER -> "badEnvelope"

----------------------------------------------------------------------------
(* The tabs.  The page has one button and one section for each of the      *)
(* views entry, exit and stats (new and list in variant C); the entry view *)
(* is the active one when the page is loaded.  tabs holds the buttons and  *)
(* the sections that carry the class active (in variant C the sections     *)
(* that do not carry the class hidden) and the button clicked last.  No    *)
(* handler reads the tabs: the specifications of the records leave them as *)
(* they are, and SpecTabs follows the clicks, those of the user and those  *)
(* issued by the edit handlers.                                            *)

TabNames == {"entry", "exit", "stats"}

InitialTabs == [button |-> {"entry"}, section |-> {"entry"}, clicked |-> ""]
C_InitialTabs == [button |-> {"new"}, section |-> {"new"}, clicked |-> ""]

\* setupTabs without the removal of active from the other sections.
D_tabClickedKeepsSections(t, name) ==
    [button |-> (t.button \ TabNames) \cup {name},
     section |-> t.section \cup (IF name \in TabNames THEN {name} ELSE {}),
     clicked |-> name]

\* The click handler setupTabs gives every tab button, variant D.
D_tabClicked(t, name) ==
    [button |-> (t.button \ TabNames) \cup {name},
     section |-> (t.section \ TabNames)
                   \cup (IF name \in TabNames THEN {name} ELSE {}),
     clicked |-> name]

\* The click handler setupTabs gives every tab button, variant E.
E_tabClicked(t, name) ==
    [button |-> (t.button \ TabNames) \cup {name},
     section |-> (t.section \ TabNames) \cup {name},
     clicked |-> name]

\* The click handler of every .tab, variant B: a section is active if and
\* only if its id is the target of the tab.
B_tabClicked(t, name) ==
    [button |-> (t.button \ TabNames) \cup {name},
     section |-> {sec \in TabNames : sec = name},
     clicked |-> name]

\* switchTab, variant C.
C_switchTab(t, name) ==
    IF name = "new"
    THEN [button |-> (t.button \cup {"new"}) \ {"list"},
          section |-> (t.section \cup {"new"}) \ {"list"},
          clicked |-> name]
    ELSE [button |-> (t.button \cup {"list"}) \ {"new"},
          section |-> (t.section \cup {"list"}) \ {"new"},
          clicked |-> name]

----------------------------------------------------------------------------
(* What the last handler did.                                              *)

Last(op, id, ok, arg) ==
    [op |-> op, id |-> id, ok |-> ok, arg |-> arg, edit |-> FALSE,
     added |-> 0, updated |-> 0, items |-> <<>>]

FormClass(f) == IF RequiredMissing(f) THEN "missing" ELSE "complete"

----------------------------------------------------------------------------
(* Variant E: src/unnamed/part_001, second application.                    *)

\* readEntryForm: the record built from the form, before saveEntry.
E_readEntryForm(f, id) ==
    [id |-> id, createdAt |-> 0, updatedAt |-> 0,
     symbol |-> IF f.symbol = "" THEN "nk225mc" ELSE f.symbol,
     directionPlanned |->
         IF f.directionPlanned = "" THEN "long" ELSE f.directionPlanned,
     entryPrice |-> NumOrNull(f.entryPrice), size |-> NumOrNull(f.size),
     feePerUnit |-> NumOrNull(f.feePerUnit), ind |-> f.ind,
     minWinRate |-> NumOrNull(f.minWinRate), marketMemo |-> f.marketMemo,
     imageData |-> f.image, recommendation |-> Null,
     hasResult |-> FALSE, datetimeExit |-> Null, exitPrice |-> Null,
     directionTaken |-> Null, highDuringTrade |-> Null,
     lowDuringTrade |-> Null, profit |-> Null, resultMemo |-> Str("")]

\* The number of features on which the entry and a record agree.
E_matches(entry, rec) ==
    Cardinality({k \in 1..NumFeatures : entry.ind[k] = rec.ind[k]})

\* judgeTrade: the recommended direction.
E_judgeTrade(entry, recs) ==
    LET similar == {i \in DOMAIN recs :
                      /\ recs[i].hasResult
                      /\ E_matches(entry, recs[i]) * 10 >= 4 * NumFeatures}
        group(d) == {i \in similar : recs[i].directionTaken = Str(d)}
        total(d) == Cardinality(group(d))
        wins(d) == Cardinality({i \in group(d) : Positive(recs[i].profit)})
        order == <<"long", "short", "flat">>
        cands == {k \in 1..3 : total(order[k]) > 0}
        higher(a, b) == wins(a) * total(b) > wins(b) * total(a)
        bestK == CHOOSE k \in cands :
                    /\ \A j \in cands : ~higher(order[j], order[k])
                    /\ \A j \in cands : j < k => higher(order[k], order[j])
        threshold == IF IsNum(entry.minWinRate) THEN entry.minWinRate.v ELSE 0
    IN  IF similar = {} \/ cands = {} THEN "flat"
        ELSE IF wins(order[bestK]) * 100 < threshold * total(order[bestK])
             THEN "flat"
             ELSE order[bestK]

\* saveEntry: the collection after saving the judged entry at time t.
E_saveEntry(recs, editing, newId, f, t) ==
    LET read == E_readEntryForm(f, IF editing # 0 THEN editing ELSE newId)
        entry == [read EXCEPT
                    !.directionTaken = Str(read.directionPlanned),
                    !.recommendation = Str(E_judgeTrade(read, recs))]
        idx == IndexOf(recs, editing)
    IN  IF editing # 0
        THEN IF idx # 0
             THEN [recs EXCEPT ![idx] =
                     [entry EXCEPT
                        !.createdAt = recs[idx].createdAt,
                        !.hasResult = recs[idx].hasResult,
                        !.datetimeExit = recs[idx].datetimeExit,
                        !.exitPrice = recs[idx].exitPrice,
                        !.highDuringTrade = recs[idx].highDuringTrade,
                        !.lowDuringTrade = recs[idx].lowDuringTrade,
                        !.profit = recs[idx].profit,
                        !.resultMemo = recs[idx].resultMemo,
                        !.updatedAt = t]]
             ELSE recs
        ELSE Append(recs, [entry EXCEPT !.createdAt = t, !.updatedAt = t,
                                        !.hasResult = FALSE])

\* updateResult: the selected record after the exit form f is saved at t.
E_updateResult(rec, f, t) ==
    LET exitPrice == NumOrNull(f.exitPrice)
        computable == /\ exitPrice # Null /\ rec.entryPrice # Null
                      /\ rec.size # Null /\ rec.feePerUnit # Null
    IN  [rec EXCEPT
           !.datetimeExit = IF f.datetimeExit = Empty THEN Null
                            ELSE f.datetimeExit,
           !.exitPrice = exitPrice,
           !.highDuringTrade = NumOrNull(f.highDuringTrade),
           !.lowDuringTrade = NumOrNull(f.lowDuringTrade),
           !.resultMemo = Str(f.note),
           !.hasResult = TRUE,
           !.profit =
               IF computable
               THEN Num(baseProfit(DirOf(rec.directionTaken),
                                   rec.entryPrice.v, exitPrice.v,
                                   rec.feePerUnit.v, rec.size.v)
                        * getMultiplier(rec.symbol))
               ELSE Null,
           !.updatedAt = t]

\* importRecords: the forEach over data.records.  An element that is null
\* throws when findIndex compares its id with a record's; the elements
\* before it are already merged.  findIndex compares nothing on an empty
\* collection, and the null element is pushed.
RECURSIVE E_merge(_, _, _, _)
E_merge(recs, items, added, updated) ==
    IF items = <<>>
    THEN [recs |-> recs, added |-> added, updated |-> updated, threw |-> FALSE]
    ELSE LET rec == Head(items)
             idx == IndexOf(recs, rec.id)
         IN  IF IsNullElement(rec) /\ recs # <<>>
             THEN [recs |-> recs, added |-> added, updated |-> updated,
                   threw |-> TRUE]
             ELSE IF idx = 0
             THEN E_merge(Append(recs, rec), Tail(items), added + 1, updated)
             ELSE IF recs[idx].updatedAt < rec.updatedAt
             THEN E_merge([recs EXCEPT ![idx] = rec], Tail(items),
                          added, updated + 1)
             ELSE E_merge(recs, Tail(items), added, updated)

\* new Date(): a handler reads a later time than every handler before it.
Stamp(t) == t = now + 1 /\ t <= MaxClock /\ now' = t

\* btn-judge
E_judge ==
    /\ \E f \in EntryForms :
         last' = [Last("judge", 0, TRUE, FormClass(f)) EXCEPT
                    !.edit = editingEntryId # 0]
    /\ UNCHANGED <<records, stored, editingEntryId, editingExitId,
                   pending, lastPrediction, now, nextId>>
    /\ UNCHANGED <<tabs, view, form>>

\* btn-judge-save: readEntryForm, judgeTrade, saveEntry, clearEntryForm
E_judgeSave ==
    /\ editingEntryId = 0 => (Len(records) < MaxRecords /\ nextId <= MaxIds)
    /\ \E f \in EntryForms, t \in 1..MaxClock :
         /\ Stamp(t)
         /\ records' = E_saveEntry(records, editingEntryId, nextId, f, t)
         /\ last' = [Last("judgeSave",
                          IF editingEntryId # 0 THEN editingEntryId ELSE nextId,
                          TRUE, FormClass(f))
                       EXCEPT !.edit = editingEntryId # 0]
    /\ stored' = Stringify(records')
    /\ nextId' = IF editingEntryId = 0 THEN nextId + 1 ELSE nextId
    /\ editingEntryId' = 0
    /\ UNCHANGED <<editingExitId, pending, lastPrediction>>
    /\ UNCHANGED <<tabs, view, form>>

\* btn-entry-clear
E_entryClear ==
    /\ editingEntryId' = 0
    /\ last' = Last("entryClear", 0, TRUE, "")
    /\ UNCHANGED <<records, stored, editingExitId, pending, lastPrediction, now, nextId>>
    /\ UNCHANGED <<tabs, view, form>>

\* populateEntryForm, from the edit button of a row of the statistics table
E_populateEntryForm ==
    /\ \E i \in DOMAIN records :
         /\ editingEntryId' = records[i].id
         /\ last' = Last("editEntry", records[i].id, TRUE, "")
    /\ UNCHANGED <<records, stored, editingExitId, pending, lastPrediction, now, nextId>>
    /\ UNCHANGED <<tabs, view, form>>

\* a click on an item of the record list, or on the edit-result button
E_selectExit ==
    /\ \E i \in DOMAIN records :
         /\ editingExitId' = records[i].id
         /\ last' = Last("selectExit", records[i].id, TRUE, "")
    /\ UNCHANGED <<records, stored, editingEntryId, pending, lastPrediction, now, nextId>>
    /\ UNCHANGED <<tabs, view, form>>

\* btn-exit-clear
E_exitClear ==
    /\ editingExitId' = 0
    /\ last' = Last("exitClear", 0, TRUE, "")
    /\ UNCHANGED <<records, stored, editingEntryId, pending, lastPrediction, now, nextId>>
    /\ UNCHANGED <<tabs, view, form>>

\* btn-save-result that writes the exit form to the first record when no
\* record is selected
E_saveResultNoneUpdatesFirst ==
    /\ editingExitId = 0 \/ IndexOf(records, editingExitId) = 0
    /\ records # <<>>
    /\ \E f \in ExitForms :
         records' = [records EXCEPT ![1] = E_updateResult(records[1], f, now)]
    /\ stored' = Stringify(records')
    /\ last' = Last("saveResult", editingExitId, FALSE, "")
    /\ UNCHANGED <<editingEntryId, editingExitId, pending, lastPrediction,
                   now, nextId>>
    /\ UNCHANGED <<tabs, view, form>>

\* btn-save-result with nothing selected, or with the selection gone
E_saveResultNone ==
    /\ editingExitId = 0 \/ IndexOf(records, editingExitId) = 0
    /\ last' = Last("saveResult", editingExitId, FALSE, "")
    /\ UNCHANGED <<records, stored, editingEntryId, editingExitId, pending, lastPrediction,
                   now, nextId>>
    /\ UNCHANGED <<tabs, view, form>>

\* btn-save-result with a record selected: updateResult
E_saveResult ==
    /\ editingExitId # 0 /\ IndexOf(records, editingExitId) # 0
    /\ \E f \in ExitForms, t \in 1..MaxClock :
         LET idx == IndexOf(records, editingExitId)
         IN  /\ Stamp(t)
             /\ records' = [records EXCEPT ![idx] =
                               E_updateResult(records[idx], f, t)]
             /\ last' = Last("saveResult", editingExitId, TRUE, "")
    /\ stored' = Stringify(records')
    /\ UNCHANGED <<editingEntryId, editingExitId, pending, lastPrediction, nextId>>
    /\ UNCHANGED <<tabs, view, form>>

\* the delete button of a row, confirmed: deleteRecordById
E_deleteRecordById ==
    /\ \E i \in DOMAIN records :
         LET id == records[i].id
         IN  /\ records' = RemoveAt(records, IndexOf(records, id))
             /\ editingEntryId' = IF editingEntryId = id THEN 0
                                  ELSE editingEntryId
             /\ editingExitId' = IF editingExitId = id THEN 0
                                 ELSE editingExitId
             /\ last' = Last("delete", id, TRUE, "")
    /\ stored' = Stringify(records')
    /\ UNCHANGED <<pending, lastPrediction, now, nextId>>
    /\ UNCHANGED <<tabs, view, form>>

\* deleteBtn click, the confirmation declined
E_deleteDeclined ==
    /\ \E i \in DOMAIN records :
         last' = Last("delete", records[i].id, FALSE, "")
    /\ UNCHANGED <<records, stored, editingEntryId, editingExitId, pending,
                   lastPrediction, now, nextId>>
    /\ UNCHANGED <<tabs, view, form>>

\* the change handler of import-file, with importRecords
E_import ==
    /\ \E file \in Files :
         LET m == E_merge(records, file.items, 0, 0)
         IN  IF ~ValidEnvelope(file)
             THEN /\ last' = Last("import", 0, FALSE, FileClass(file))
                  /\ UNCHANGED <<records, stored>>
             ELSE /\ Len(m.recs) <= MaxRecords
                  /\ records' = m.recs
                  /\ stored' = IF m.threw THEN stored ELSE Stringify(m.recs)
                  /\ last' = [Last("import", 0, ~m.threw, FileClass(file)) EXCEPT
                                !.added = m.added, !.updated = m.updated]
    /\ UNCHANGED <<editingEntryId, editingExitId, pending, lastPrediction, now, nextId>>
    /\ UNCHANGED <<tabs, view, form>>

\* the page is loaded again: init, loadRecords
E_loadRecords ==
    /\ records' = stored
    /\ editingEntryId' = 0
    /\ editingExitId' = 0
    /\ last' = Last("load", 0, TRUE, "")
    /\ UNCHANGED <<stored, pending, lastPrediction, now, nextId>>
    /\ UNCHANGED <<tabs, view, form>>

NextE ==
    \/ E_judge
    \/ E_judgeSave
    \/ E_entryClear
    \/ E_populateEntryForm
    \/ E_selectExit
    \/ E_exitClear
    \/ E_saveResultNone
    \/ E_saveResult
    \/ E_deleteRecordById
    \/ E_deleteDeclined
    \/ E_import
    \/ E_loadRecords

----------------------------------------------------------------------------
(* Variant D: src/unnamed/part_001, first application.                     *)

\* collectEntryValues: the entry built from the form.
D_collectEntryValues(f) ==
    [id |-> 0, createdAt |-> 0, updatedAt |-> 0,
     symbol |-> f.symbol, directionPlanned |-> f.directionPlanned,
     entryPrice |-> NumOrNull(f.entryPrice), size |-> NumOrNull(f.size),
     feePerUnit |-> NumOrNull(f.feePerUnit), ind |-> f.ind,
     minWinRate |-> NumOrNull(f.minWinRate), marketMemo |-> f.marketMemo,
     imageData |-> f.image, recommendation |-> Null,
     hasResult |-> FALSE, datetimeExit |-> Null, exitPrice |-> Null,
     directionTaken |-> Null, highDuringTrade |-> Null,
     lowDuringTrade |-> Null, profit |-> Null, resultMemo |-> Str("")]

\* rec.profit || 0
ProfitOrZero(x) == IF IsNum(x) THEN x.v ELSE 0

RECURSIVE ProfitSum(_, _)
ProfitSum(recs, S) ==
    IF S = {} THEN 0
    ELSE LET i == CHOOSE j \in S : TRUE
         IN  ProfitOrZero(recs[i].profit) + ProfitSum(recs, S \ {i})

\* The number of features on which the entry and a record agree, both
\* readings being non-empty.
D_matches(entry, rec) ==
    Cardinality({k \in 1..NumFeatures :
                    entry.ind[k] # "" /\ entry.ind[k] = rec.ind[k]})

\* judgeTrade with candidates of every instrument.
D_judgeTradeAnySymbol(entry, recs) ==
    LET similar == {i \in DOMAIN recs :
                      /\ recs[i].hasResult
                      /\ D_matches(entry, recs[i]) * 2 >= NumFeatures}
        group(d) == {i \in similar : recs[i].directionTaken = Str(d)}
        count(d) == Cardinality(group(d))
        winners(d) == {i \in group(d) : ProfitOrZero(recs[i].profit) > 0}
        losers(d) == {i \in group(d) : ProfitOrZero(recs[i].profit) < 0}
        winCount(d) == Cardinality(winners(d))
        den(S) == IF S = {} THEN 1 ELSE Cardinality(S)
        \* avgProfit + avgLoss = scoreNum / scoreDen
        scoreNum(d) == ProfitSum(recs, winners(d)) * den(losers(d))
                       + ProfitSum(recs, losers(d)) * den(winners(d))
        scoreDen(d) == den(winners(d)) * den(losers(d))
        shortWins ==
            \/ count("long") = 0
            \/ winCount("short") * count("long")
                  > winCount("long") * count("short")
            \/ /\ winCount("short") * count("long")
                    = winCount("long") * count("short")
               /\ scoreNum("short") * scoreDen("long")
                    > scoreNum("long") * scoreDen("short")
        candidateDirection ==
            IF count("short") > 0 /\ shortWins THEN "short"
            ELSE IF count("long") > 0 THEN "long"
            ELSE ""
        threshold == IF entry.minWinRate # Null THEN entry.minWinRate.v ELSE 0
    IN  IF similar = {} \/ candidateDirection = "" THEN "flat"
        ELSE IF winCount(candidateDirection) * 100
                  >= threshold * count(candidateDirection)
             THEN candidateDirection
             ELSE "flat"

\* judgeTrade: the recommended direction.  Win rates and averages are
\* compared as fractions, by cross-multiplication.
D_judgeTrade(entry, recs) ==
    LET similar == {i \in DOMAIN recs :
                      /\ recs[i].symbol = entry.symbol
                      /\ recs[i].hasResult
                      /\ D_matches(entry, recs[i]) * 2 >= NumFeatures}
        group(d) == {i \in similar : recs[i].directionTaken = Str(d)}
        count(d) == Cardinality(group(d))
        winners(d) == {i \in group(d) : ProfitOrZero(recs[i].profit) > 0}
        losers(d) == {i \in group(d) : ProfitOrZero(recs[i].profit) < 0}
        winCount(d) == Cardinality(winners(d))
        den(S) == IF S = {} THEN 1 ELSE Cardinality(S)
        \* avgProfit + avgLoss = scoreNum / scoreDen
        scoreNum(d) == ProfitSum(recs, winners(d)) * den(losers(d))
                       + ProfitSum(recs, losers(d)) * den(winners(d))
        scoreDen(d) == den(winners(d)) * den(losers(d))
        shortWins ==
            \/ count("long") = 0
            \/ winCount("short") * count("long")
                  > winCount("long") * count("short")
            \/ /\ winCount("short") * count("long")
                    = winCount("long") * count("short")
               /\ scoreNum("short") * scoreDen("long")
                    > scoreNum("long") * scoreDen("short")
        candidateDirection ==
            IF count("short") > 0 /\ shortWins THEN "short"
            ELSE IF count("long") > 0 THEN "long"
            ELSE ""
        threshold == IF entry.minWinRate # Null THEN entry.minWinRate.v ELSE 0
    IN  IF similar = {} \/ candidateDirection = "" THEN "flat"
        ELSE IF winCount(candidateDirection) * 100
                  >= threshold * count(candidateDirection)
             THEN candidateDirection
             ELSE "flat"

\* saveNewTrade
D_saveNewTrade(recs, id, f, t) ==
    LET entry == D_collectEntryValues(f)
    IN  Append(recs,
               [entry EXCEPT
                  !.recommendation = Str(D_judgeTrade(entry, recs)),
                  !.id = id, !.createdAt = t, !.updatedAt = t,
                  !.directionTaken = Str(entry.directionPlanned),
                  !.hasResult = FALSE])

\* updateExistingEntry
D_updateExistingEntry(recs, id, f, t) ==
    LET entry == D_collectEntryValues(f)
        index == IndexOf(recs, id)
        rec == recs[index]
    IN  IF index = 0 THEN recs
        ELSE [recs EXCEPT ![index] =
                [entry EXCEPT
                   !.recommendation = Str(D_judgeTrade(entry, recs)),
                   !.id = rec.id, !.createdAt = rec.createdAt,
                   !.updatedAt = t,
                   !.directionTaken = Str(entry.directionPlanned),
                   !.datetimeExit = rec.datetimeExit,
                   !.exitPrice = rec.exitPrice,
                   !.highDuringTrade = rec.highDuringTrade,
                   !.lowDuringTrade = rec.lowDuringTrade,
                   !.profit = rec.profit,
                   !.resultMemo = rec.resultMemo,
                   !.hasResult = rec.hasResult]]

\* saveExitResult: the record after the exit form f is saved at time t.
D_saveExitResult(rec, f, t) ==
    LET exitPrice == NumOrNull(f.exitPrice)
        computable == /\ rec.entryPrice # Null /\ exitPrice # Null
                      /\ rec.size # Null /\ rec.feePerUnit # Null
        base == IF computable
                THEN baseProfit(DirOf(rec.directionTaken), rec.entryPrice.v,
                                exitPrice.v, rec.feePerUnit.v, rec.size.v)
                ELSE 0
    IN  [rec EXCEPT
           !.datetimeExit = IF f.datetimeExit = Empty THEN Null
                            ELSE f.datetimeExit,
           !.exitPrice = exitPrice,
           !.highDuringTrade = NumOrNull(f.highDuringTrade),
           !.lowDuringTrade = NumOrNull(f.lowDuringTrade),
           !.resultMemo = Str(f.note),
           !.profit = Num(base * getMultiplier(rec.symbol)),
           !.hasResult = TRUE,
           !.updatedAt = t]

\* btnJudge
D_judge ==
    /\ \E f \in EntryForms :
         last' = [Last("judge", 0, TRUE, FormClass(f)) EXCEPT
                    !.edit = editingEntryId # 0]
    /\ UNCHANGED <<records, stored, editingEntryId, editingExitId,
                   pending, lastPrediction, now, nextId>>
    /\ UNCHANGED <<tabs, view, form>>

\* btnJudgeAndSave: collectEntryValues, judgeTrade, then updateExistingEntry
\* or saveNewTrade, then clearEntryForm and renderExitOptions
D_judgeAndSave ==
    /\ editingEntryId = 0 => (Len(records) < MaxRecords /\ nextId <= MaxIds)
    /\ \E f \in EntryForms, t \in 1..MaxClock :
         /\ Stamp(t)
         /\ records' = IF editingEntryId # 0
                       THEN D_updateExistingEntry(records, editingEntryId, f, t)
                       ELSE D_saveNewTrade(records, nextId, f, t)
         /\ last' = [Last("judgeSave",
                          IF editingEntryId # 0 THEN editingEntryId ELSE nextId,
                          TRUE, FormClass(f))
                       EXCEPT !.edit = editingEntryId # 0]
    /\ stored' = IF editingEntryId # 0 /\ IndexOf(records, editingEntryId) = 0
                 THEN stored
                 ELSE Stringify(records')
    /\ nextId' = IF editingEntryId = 0 THEN nextId + 1 ELSE nextId
    /\ editingEntryId' = 0
    /\ editingExitId' = 0
    /\ UNCHANGED <<pending, lastPrediction>>
    /\ UNCHANGED <<tabs, view, form>>

\* btnClearEntry
D_clearEntry ==
    /\ editingEntryId' = 0
    /\ last' = Last("entryClear", 0, TRUE, "")
    /\ UNCHANGED <<records, stored, editingExitId, pending, lastPrediction, now, nextId>>
    /\ UNCHANGED <<tabs, view, form>>

\* editEntry, from the edit button of a row of the records table
D_editEntry ==
    /\ \E i \in DOMAIN records :
         /\ editingEntryId' = records[i].id
         /\ last' = Last("editEntry", records[i].id, TRUE, "")
    /\ UNCHANGED <<records, stored, editingExitId, pending, lastPrediction, now, nextId>>
    /\ UNCHANGED <<tabs, view, form>>

\* loadExitRecord, from exitRecordSelect or from editExit
D_loadExitRecord ==
    /\ \E i \in DOMAIN records :
         /\ editingExitId' = records[i].id
         /\ last' = Last("selectExit", records[i].id, TRUE, "")
    /\ UNCHANGED <<records, stored, editingEntryId, pending, lastPrediction, now, nextId>>
    /\ UNCHANGED <<tabs, view, form>>

\* btnClearExit: clearExitForm
D_clearExit ==
    /\ editingExitId' = 0
    /\ last' = Last("exitClear", 0, TRUE, "")
    /\ UNCHANGED <<records, stored, editingEntryId, pending, lastPrediction, now, nextId>>
    /\ UNCHANGED <<tabs, view, form>>

\* btnSaveExit with no record loaded into the exit form
D_saveExitNone ==
    /\ editingExitId = 0 \/ IndexOf(records, editingExitId) = 0
    /\ last' = Last("saveResult", 0, FALSE, "")
    /\ UNCHANGED <<records, stored, editingEntryId, editingExitId, pending, lastPrediction,
                   now, nextId>>
    /\ UNCHANGED <<tabs, view, form>>

\* btnSaveExit with a record loaded: saveExitResult
D_saveExit ==
    /\ editingExitId # 0 /\ IndexOf(records, editingExitId) # 0
    /\ \E f \in ExitForms, t \in 1..MaxClock :
         LET recIndex == IndexOf(records, editingExitId)
         IN  /\ Stamp(t)
             /\ records' = [records EXCEPT ![recIndex] =
                               D_saveExitResult(records[recIndex], f, t)]
             /\ last' = Last("saveResult", editingExitId, TRUE, "")
    /\ stored' = Stringify(records')
    /\ editingExitId' = 0
    /\ UNCHANGED <<editingEntryId, pending, lastPrediction, nextId>>
    /\ UNCHANGED <<tabs, view, form>>

\* deleteRecord, confirmed
D_deleteRecord ==
    /\ \E i \in DOMAIN records :
         /\ records' = RemoveAt(records, IndexOf(records, records[i].id))
         /\ last' = Last("delete", records[i].id, TRUE, "")
    /\ stored' = Stringify(records')
    /\ editingExitId' = 0
    /\ UNCHANGED <<editingEntryId, pending, lastPrediction, now, nextId>>
    /\ UNCHANGED <<tabs, view, form>>

\* deleteRecord, the confirmation declined
D_deleteDeclined ==
    /\ \E i \in DOMAIN records :
         last' = Last("delete", records[i].id, FALSE, "")
    /\ UNCHANGED <<records, stored, editingEntryId, editingExitId, pending,
                   lastPrediction, now, nextId>>
    /\ UNCHANGED <<tabs, view, form>>

\* the change handler of importFile: a JSON array replaces the collection
\* once the user confirms; anything else is refused
D_import ==
    /\ \E file \in Files, confirmed \in BOOLEAN :
         IF file.kind = "array" /\ confirmed
         THEN /\ Len(file.items) <= MaxRecords
              /\ records' = file.items
              /\ stored' = Stringify(file.items)
              /\ editingExitId' = 0
              /\ last' = [Last("import", 0, TRUE, FileClass(file)) EXCEPT
                            !.added = Len(file.items)]
         ELSE /\ file.kind = "array" \/ confirmed
              /\ last' = Last("import", 0, FALSE, FileClass(file))
              /\ UNCHANGED <<records, stored, editingExitId>>
    /\ UNCHANGED <<editingEntryId, pending, lastPrediction, now, nextId>>
    /\ UNCHANGED <<tabs, view, form>>

\* the page is loaded again: loadTradeRecords
D_loadTradeRecords ==
    /\ records' = stored
    /\ editingEntryId' = 0
    /\ editingExitId' = 0
    /\ last' = Last("load", 0, TRUE, "")
    /\ UNCHANGED <<stored, pending, lastPrediction, now, nextId>>
    /\ UNCHANGED <<tabs, view, form>>

NextD ==
    \/ D_judge
    \/ D_judgeAndSave
    \/ D_clearEntry
    \/ D_editEntry
    \/ D_loadExitRecord
    \/ D_clearExit
    \/ D_saveExitNone
    \/ D_saveExit
    \/ D_deleteRecord
    \/ D_deleteDeclined
    \/ D_import
    \/ D_loadTradeRecords

----------------------------------------------------------------------------
(* Variant B: src/script.js, second application.  The collection lives in  *)
(* localStorage only: getTrades parses it on every use, so records always  *)
(* equals stored.  editingExitId is the value of result-entry-select.      *)

\* getEntryFormData: the entry form has no prevWave and no minWinRate input.
B_getEntryFormData(f, id, t) ==
    [id |-> id, createdAt |-> t, updatedAt |-> t,
     symbol |-> f.symbol, directionPlanned |-> f.directionPlanned,
     entryPrice |-> ParseFloat(f.entryPrice), size |-> ParseFloat(f.size),
     feePerUnit |-> ParseFloat(f.feePerUnit),
     ind |-> [f.ind EXCEPT ![1] = ""],
     minWinRate |-> Null, marketMemo |-> f.marketMemo,
     imageData |-> f.image, recommendation |-> Null,
     hasResult |-> FALSE, datetimeExit |-> Null, exitPrice |-> Null,
     directionTaken |-> Null, highDuringTrade |-> Null,
     lowDuringTrade |-> Null, profit |-> Null, resultMemo |-> Null]

\* validateEntry: every required input has a value.
B_validateEntry(f) ==
    /\ f.symbol # ""
    /\ f.directionPlanned # ""
    /\ f.entryPrice # Empty
    /\ f.size # Empty
    /\ f.feePerUnit # Empty
    /\ \A k \in 2..NumFeatures : f.ind[k] # ""

\* The five levels of computePrediction, as sets of feature positions.
B_levels ==
    << {2, 3, 4, 5, 6, 7, 9, 10, 8, 11},
       {2, 3, 5, 6, 7, 9, 10, 8, 11},
       {2, 3, 5, 6, 9, 8, 11},
       {2, 5, 6, 8, 11},
       {2, 5} >>

B_MinSamples == 3

\* matched at level l: the closed trades that agree with the entry on every
\* field of the level
B_matched(entry, recs, l) ==
    {i \in DOMAIN recs :
        /\ recs[i].hasResult
        /\ \A k \in B_levels[l] : recs[i].ind[k] = entry.ind[k]}

\* The loop over the levels, from level l on: usedLevel when it breaks.
RECURSIVE B_usedLevel(_, _, _)
B_usedLevel(entry, recs, l) ==
    IF Cardinality(B_matched(entry, recs, l)) >= B_MinSamples
          \/ l = Len(B_levels)
    THEN l
    ELSE B_usedLevel(entry, recs, l + 1)

\* Number(x) for the values a record holds.
ToNumber(x) ==
    CASE x.t = "num" -> x
      [] x.t = "null" -> Num(0)
      [] x = Empty -> Num(0)
      [] OTHER -> NaN

\* a - b on JavaScript values
Minus(a, b) ==
    IF IsNum(ToNumber(a)) /\ IsNum(ToNumber(b))
    THEN Num(ToNumber(a).v - ToNumber(b).v)
    ELSE NaN

B_move(dir, r) ==
    IF dir = "long"
    THEN Minus(OrElse(r.highDuringTrade, r.exitPrice), r.entryPrice)
    ELSE Minus(r.entryPrice, OrElse(r.lowDuringTrade, r.exitPrice))

RECURSIVE B_moveSum(_, _, _)
B_moveSum(dir, recs, S) ==
    IF S = {} THEN 0
    ELSE LET i == CHOOSE j \in S : TRUE
         IN  B_move(dir, recs[i]).v + B_moveSum(dir, recs, S \ {i})

\* computePrediction: the recommended direction.
B_computePrediction(entry, recs) ==
    LET trades == {i \in DOMAIN recs : recs[i].hasResult}
        match(l) == {i \in trades :
                        \A k \in B_levels[l] : recs[i].ind[k] = entry.ind[k]}
        usedLevel == B_usedLevel(entry, recs, 1)
        matched == match(usedLevel)
        group(d) == {i \in matched : recs[i].directionTaken = Str(d)}
        count(d) == Cardinality(group(d))
        wins(d) == Cardinality({i \in group(d) : Positive(recs[i].profit)})
        moves(d) == {i \in group(d) : IsNum(B_move(d, recs[i]))}
        den(n) == IF n = 0 THEN 1 ELSE n
        \* winRate(a) > winRate(b) + 0.05
        ahead(a, b) == 20 * wins(a) * den(count(b))
                         > 20 * wins(b) * den(count(a))
                           + den(count(a)) * den(count(b))
        \* avgMove(a) > avgMove(b)
        further(a, b) ==
            B_moveSum(a, recs, moves(a)) * den(Cardinality(moves(b)))
              > B_moveSum(b, recs, moves(b)) * den(Cardinality(moves(a)))
    IN  IF count("long") < B_MinSamples /\ count("short") < B_MinSamples
        THEN "flat"
        ELSE IF ahead("long", "short") THEN "long"
        ELSE IF ahead("short", "long") THEN "short"
        ELSE IF further("long", "short") THEN "long"
        ELSE IF further("short", "long") THEN "short"
        ELSE "flat"

\* predict-save-btn without "Preserve createdAt for existing record": the
\* edited record keeps the createdAt read from the form.
B_predictSaveNewCreatedAt(trades, editing, newId, f, t) ==
    LET read == B_getEntryFormData(f, IF editing # 0 THEN editing ELSE newId, t)
        entry == [read EXCEPT
                    !.recommendation = Str(B_computePrediction(read, trades))]
        idx == IndexOf(trades, editing)
        existing == trades[idx]
    IN  IF editing = 0 THEN Append(trades, entry)
        ELSE IF idx = 0 THEN trades
        ELSE [trades EXCEPT ![idx] =
                [entry EXCEPT
                   !.hasResult = existing.hasResult,
                   !.datetimeExit = existing.datetimeExit,
                   !.exitPrice = existing.exitPrice,
                   !.directionTaken = existing.directionTaken,
                   !.highDuringTrade = existing.highDuringTrade,
                   !.lowDuringTrade = existing.lowDuringTrade,
                   !.profit = existing.profit,
                   !.resultMemo = existing.resultMemo]]

\* predict-save-btn, past validation: the collection after the save.
B_predictSave(trades, editing, newId, f, t) ==
    LET read == B_getEntryFormData(f, IF editing # 0 THEN editing ELSE newId, t)
        entry == [read EXCEPT
                    !.recommendation = Str(B_computePrediction(read, trades))]
        idx == IndexOf(trades, editing)
        existing == trades[idx]
    IN  IF editing = 0 THEN Append(trades, entry)
        ELSE IF idx = 0 THEN trades
        ELSE [trades EXCEPT ![idx] =
                [entry EXCEPT
                   !.createdAt = existing.createdAt,
                   !.hasResult = existing.hasResult,
                   !.datetimeExit = existing.datetimeExit,
                   !.exitPrice = existing.exitPrice,
                   !.directionTaken = existing.directionTaken,
                   !.highDuringTrade = existing.highDuringTrade,
                   !.lowDuringTrade = existing.lowDuringTrade,
                   !.profit = existing.profit,
                   !.resultMemo = existing.resultMemo]]

\* result-save-btn: the required fields of the result form are present.
B_resultValid(f) ==
    /\ f.datetimeExit # Empty
    /\ ParseFloat(f.exitPrice) # NaN
    /\ ParseFloat(f.size) # NaN
    /\ ParseFloat(f.feePerUnit) # NaN

\* parseFloat(v) || null
ParseFloatOrNull(x) == OrElse(ParseFloat(x), Null)

\* result-save-btn, past validation: the trade after the save at time t.
\* trade.entryPrice enters the subtraction as Number(trade.entryPrice).
B_resultSave(trade, f, t) ==
    LET entryPrice == ToNumber(trade.entryPrice)
        profit == IF IsNum(entryPrice)
                  THEN Num(baseProfit(f.directionTaken, entryPrice.v,
                                      f.exitPrice.v, f.feePerUnit.v, f.size.v))
                  ELSE IF f.directionTaken \in {"long", "short"} THEN NaN
                  ELSE Num(0)
    IN  [trade EXCEPT
           !.datetimeExit = f.datetimeExit,
           !.exitPrice = f.exitPrice,
           !.directionTaken = Str(f.directionTaken),
           !.size = f.size,
           !.feePerUnit = f.feePerUnit,
           !.highDuringTrade = ParseFloatOrNull(f.highDuringTrade),
           !.lowDuringTrade = ParseFloatOrNull(f.lowDuringTrade),
           !.resultMemo = Str(f.note),
           !.profit = profit,
           !.hasResult = TRUE,
           !.updatedAt = t]

\* importInput change handler: the merge is made on the array getTrades
\* returned; saveTrades runs only when the whole loop has run.
RECURSIVE B_merge(_, _, _, _)
B_merge(trades, items, added, updated) ==
    IF items = <<>>
    THEN [recs |-> trades, added |-> added, updated |-> updated,
          threw |-> FALSE]
    ELSE LET rec == Head(items)
             idx == IndexOf(trades, rec.id)
         IN  IF IsNullElement(rec) /\ trades # <<>>
             THEN [recs |-> trades, added |-> added, updated |-> updated,
                   threw |-> TRUE]
             ELSE IF idx = 0
             THEN B_merge(Append(trades, rec), Tail(items), added + 1, updated)
             ELSE IF rec.updatedAt > trades[idx].updatedAt
             THEN B_merge([trades EXCEPT ![idx] = rec], Tail(items),
                          added, updated + 1)
             ELSE B_merge(trades, Tail(items), added, updated)

\* loadResultSelection: the select shows the first trade, if any.
B_firstId(trades) == IF trades = <<>> THEN 0 ELSE trades[1].id

\* predict-btn
B_predict ==
    /\ \E f \in AllEntryForms :
         last' = [Last("judge", 0, B_validateEntry(f), FormClass(f)) EXCEPT
                    !.edit = editingEntryId # 0]
    /\ UNCHANGED <<records, stored, editingEntryId, editingExitId,
                   pending, lastPrediction, now, nextId>>
    /\ UNCHANGED <<tabs, view, form>>

\* predict-save-btn with a required input empty
B_predictSaveInvalid ==
    /\ \E f \in AllEntryForms :
         /\ ~B_validateEntry(f)
         /\ last' = [Last("judgeSave", 0, FALSE, FormClass(f)) EXCEPT
                       !.edit = editingEntryId # 0]
    /\ UNCHANGED <<records, stored, editingEntryId, editingExitId,
                   pending, lastPrediction, now, nextId>>
    /\ UNCHANGED <<tabs, view, form>>

\* predict-save-btn with every required input filled
B_predictSaveValid ==
    /\ editingEntryId = 0 => (Len(stored) < MaxRecords /\ nextId <= MaxIds)
    /\ \E f \in AllEntryForms, t \in 1..MaxClock :
         /\ B_validateEntry(f)
         /\ Stamp(t)
         /\ stored' = Stringify(B_predictSave(stored, editingEntryId, nextId,
                                              f, t))
         /\ last' = [Last("judgeSave",
                          IF editingEntryId # 0 THEN editingEntryId ELSE nextId,
                          TRUE, FormClass(f))
                       EXCEPT !.edit = editingEntryId # 0]
    /\ records' = stored'
    /\ nextId' = IF editingEntryId = 0 THEN nextId + 1 ELSE nextId
    /\ editingEntryId' = 0
    /\ editingExitId' = B_firstId(stored')
    /\ UNCHANGED <<pending, lastPrediction>>
    /\ UNCHANGED <<tabs, view, form>>

\* an edit button of the analysis table
B_edit ==
    /\ \E i \in DOMAIN stored :
         /\ editingEntryId' = stored[i].id
         /\ last' = Last("editEntry", stored[i].id, TRUE, "")
    /\ UNCHANGED <<records, stored, editingExitId, pending, lastPrediction, now, nextId>>
    /\ UNCHANGED <<tabs, view, form>>

\* resultSelect change
B_resultSelect ==
    /\ \E i \in DOMAIN stored :
         /\ editingExitId' = stored[i].id
         /\ last' = Last("selectExit", stored[i].id, TRUE, "")
    /\ UNCHANGED <<records, stored, editingEntryId, pending, lastPrediction, now, nextId>>
    /\ UNCHANGED <<tabs, view, form>>

\* result-save-btn with no trade selected, or with a required input empty
B_resultSaveRefused ==
    /\ \E f \in AllExitForms :
         /\ IndexOf(stored, editingExitId) = 0 \/ ~B_resultValid(f)
         /\ last' = Last("saveResult", editingExitId, FALSE, "")
    /\ UNCHANGED <<records, stored, editingEntryId, editingExitId, pending, lastPrediction,
                   now, nextId>>
    /\ UNCHANGED <<tabs, view, form>>

\* result-save-btn with a trade selected and the required inputs filled
B_resultSaveDone ==
    /\ IndexOf(stored, editingExitId) # 0
    /\ \E f \in AllExitForms, t \in 1..MaxClock :
         LET idx == IndexOf(stored, editingExitId)
         IN  /\ B_resultValid(f)
             /\ Stamp(t)
             /\ stored' = Stringify([stored EXCEPT ![idx] =
                                        B_resultSave(stored[idx], f, t)])
             /\ last' = Last("saveResult", editingExitId, TRUE, "")
    /\ records' = stored'
    /\ UNCHANGED <<editingEntryId, editingExitId, pending, lastPrediction, nextId>>
    /\ UNCHANGED <<tabs, view, form>>

\* importInput change handler
B_import ==
    /\ \E file \in Files :
         LET m == B_merge(stored, file.items, 0, 0)
         IN  IF ~ValidEnvelope(file) \/ m.threw
             THEN /\ last' = Last("import", 0, FALSE, FileClass(file))
                  /\ UNCHANGED <<records, stored, editingExitId>>
             ELSE /\ Len(m.recs) <= MaxRecords
                  /\ stored' = Stringify(m.recs)
                  /\ records' = stored'
                  /\ editingExitId' = B_firstId(stored')
                  /\ last' = [Last("import", 0, TRUE, FileClass(file)) EXCEPT
                                !.added = m.added, !.updated = m.updated]
    /\ UNCHANGED <<editingEntryId, pending, lastPrediction, now, nextId>>
    /\ UNCHANGED <<tabs, view, form>>

\* the page is loaded again
B_load ==
    /\ editingEntryId' = 0
    /\ editingExitId' = B_firstId(stored)
    /\ last' = Last("load", 0, TRUE, "")
    /\ UNCHANGED <<records, stored, pending, lastPrediction, now, nextId>>
    /\ UNCHANGED <<tabs, view, form>>

NextB ==
    \/ B_predict
    \/ B_predictSaveInvalid
    \/ B_predictSaveValid
    \/ B_edit
    \/ B_resultSelect
    \/ B_resultSaveRefused
    \/ B_resultSaveDone
    \/ B_import
    \/ B_load

----------------------------------------------------------------------------
(* Variant C: src/unnamed/part_000.  One form holds the plan and the       *)
(* outcome; a record is never edited or deleted.  The record keeps the     *)
(* field names of the other variants (entry_price is entryPrice, note is   *)
(* resultMemo, ...); it has no hasResult, createdAt or updatedAt of its    *)
(* own, so a record built here carries FALSE and 0 for them.               *)

\* validateBasicInputs: the instrument and the planned direction are set.
C_validateBasicInputs(f) == f.symbol # "" /\ f.directionPlanned # ""

\* buildRecord's move.
C_move(r) ==
    IF IsNum(r.entryPrice) /\ IsNum(r.exitPrice) /\ DirOf(r.directionTaken) # ""
    THEN Num(baseProfit(DirOf(r.directionTaken), r.entryPrice.v,
                        r.exitPrice.v, 0, 1))
    ELSE Null

C_levels ==
    << {2, 3, 4, 5, 6, 7, 9, 10, 8, 11},
       {2, 3, 5, 6, 7, 9, 10, 8, 11},
       {2, 3, 5, 6, 9, 8, 11},
       {2, 5, 6, 8, 11},
       {2, 5} >>

C_EnoughSamples == 5
C_MinSimilar == 3

\* similar at level l: the records that agree with the features on every
\* key of the level
C_similar(ind, recs, l) ==
    {i \in DOMAIN recs : \A k \in C_levels[l] : recs[i].ind[k] = ind[k]}

\* The loop over the levels that stops at the first level with a match.
RECURSIVE C_levelUsedAnyMatch(_, _, _)
C_levelUsedAnyMatch(ind, recs, l) ==
    IF Cardinality(C_similar(ind, recs, l)) >= 1 \/ l = Len(C_levels)
    THEN l
    ELSE C_levelUsedAnyMatch(ind, recs, l + 1)

\* The loop over the levels, from level l on: levelUsed when it breaks.
RECURSIVE C_levelUsed(_, _, _)
C_levelUsed(ind, recs, l) ==
    IF Cardinality(C_similar(ind, recs, l)) >= C_EnoughSamples
          \/ l = Len(C_levels)
    THEN l
    ELSE C_levelUsed(ind, recs, l + 1)

RECURSIVE C_moveSum(_, _)
C_moveSum(recs, S) ==
    IF S = {} THEN 0
    ELSE LET i == CHOOSE j \in S : TRUE
             m == C_move(recs[i])
         IN  (IF IsNum(m) THEN m.v ELSE 0) + C_moveSum(recs, S \ {i})

\* predictTrade: the recommended direction.
C_predictTrade(ind, recs) ==
    LET match(l) == {i \in DOMAIN recs :
                        \A k \in C_levels[l] : recs[i].ind[k] = ind[k]}
        levelUsed == C_levelUsed(ind, recs, 1)
        similar == match(levelUsed)
        group(d) == {i \in similar : recs[i].directionTaken = Str(d)}
        n(d) == Cardinality(group(d))
        sum(d) == C_moveSum(recs, group(d))
        den(d) == IF n(d) = 0 THEN 1 ELSE n(d)
        \* avg(a) > 0 and avg(a) > avg(b)
        better(a, b) == sum(a) > 0 /\ sum(a) * den(b) > sum(b) * den(a)
    IN  IF Cardinality(similar) < C_MinSimilar THEN "flat"
        ELSE IF better("long", "short") THEN "long"
        ELSE IF better("short", "long") THEN "short"
        ELSE "flat"

\* buildRecord: the record built from the form and the prediction.
C_buildRecord(f, x, id, prediction) ==
    [id |-> id, createdAt |-> 0, updatedAt |-> 0,
     symbol |-> f.symbol, directionPlanned |-> f.directionPlanned,
     entryPrice |-> NumOrNull(f.entryPrice), size |-> Null,
     feePerUnit |-> Null, ind |-> [f.ind EXCEPT ![1] = ""],
     minWinRate |-> Null, marketMemo |-> f.marketMemo,
     imageData |-> f.image, recommendation |-> Str(prediction),
     hasResult |-> FALSE, datetimeExit |-> Null,
     exitPrice |-> NumOrNull(x.exitPrice),
     directionTaken |-> Str(x.directionTaken), highDuringTrade |-> Null,
     lowDuringTrade |-> Null, profit |-> NumOrNull(x.profit),
     resultMemo |-> Str(x.note)]

\* The forEach of the import handler: an incoming record is pushed when no
\* record has its id, and skipped otherwise.  A null element throws when
\* some compares its id with a record's.
RECURSIVE C_merge(_, _)
C_merge(recs, items) ==
    IF items = <<>> THEN [recs |-> recs, threw |-> FALSE]
    ELSE IF IsNullElement(Head(items)) /\ recs # <<>>
         THEN [recs |-> recs, threw |-> TRUE]
         ELSE IF Head(items).id \in Ids(recs)
         THEN C_merge(recs, Tail(items))
         ELSE C_merge(Append(recs, Head(items)), Tail(items))

\* predict-only
C_predictOnly ==
    /\ \E f \in AllEntryForms :
         last' = Last("judge", 0, C_validateBasicInputs(f), FormClass(f))
    /\ UNCHANGED <<records, stored, editingEntryId, editingExitId,
                   pending, lastPrediction, now, nextId>>
    /\ UNCHANGED <<tabs, view, form>>

\* predict-save, refused by validateBasicInputs
C_predictSaveInvalid ==
    /\ \E f \in AllEntryForms :
         /\ ~C_validateBasicInputs(f)
         /\ last' = Last("judgeSave", 0, FALSE, FormClass(f))
    /\ UNCHANGED <<records, stored, editingEntryId, editingExitId,
                   pending, lastPrediction, now, nextId>>
    /\ UNCHANGED <<tabs, view, form>>

\* predict-save
C_predictSave ==
    /\ Len(records) < MaxRecords
    /\ nextId <= MaxIds
    /\ \E f \in AllEntryForms, x \in AllExitForms :
         /\ C_validateBasicInputs(f)
         /\ records' = Append(records,
                C_buildRecord(f, x, nextId, C_predictTrade(f.ind, records)))
         /\ last' = Last("judgeSave", nextId, TRUE, FormClass(f))
    /\ stored' = Stringify(records')
    /\ nextId' = nextId + 1
    /\ UNCHANGED <<editingEntryId, editingExitId, pending, lastPrediction, now>>
    /\ UNCHANGED <<tabs, view, form>>

\* importFileInput change, reader.onload
C_import ==
    /\ \E file \in Files :
         IF ~ValidEnvelope(file)
         THEN /\ last' = [Last("import", 0, FALSE, FileClass(file)) EXCEPT
                            !.items = file.items]
              /\ UNCHANGED <<records, stored>>
         ELSE LET m == C_merge(records, file.items)
              IN  /\ Len(m.recs) <= MaxRecords
                  /\ records' = m.recs
                  /\ stored' = IF m.threw THEN stored ELSE Stringify(m.recs)
                  /\ last' = [Last("import", 0, ~m.threw, FileClass(file))
                                EXCEPT
                                  !.added = IF m.threw THEN 0
                                            ELSE Len(m.recs) - Len(records),
                                  !.items = file.items]
    /\ UNCHANGED <<editingEntryId, editingExitId, pending, lastPrediction, now, nextId>>
    /\ UNCHANGED <<tabs, view, form>>

\* the page is loaded again: loadRecords
C_loadRecords ==
    /\ records' = stored
    /\ last' = Last("load", 0, TRUE, "")
    /\ UNCHANGED <<stored, editingEntryId, editingExitId, pending, lastPrediction, now, nextId>>
    /\ UNCHANGED <<tabs, view, form>>

NextC ==
    \/ C_predictOnly
    \/ C_predictSaveInvalid
    \/ C_predictSave
    \/ C_import
    \/ C_loadRecords

----------------------------------------------------------------------------
(* Variant A: src/script.js, first application.  The result form mutates   *)
(* the record object and, when an image is attached, finishes the update   *)
(* in the callback of the image read.  A pending read is                   *)
(* [idx, image, detached, obj]: the position finishUpdate writes to, the   *)
(* image being read, and, once an import has put another object at that    *)
(* position, the object the callback still holds.                          *)

\* parseFloat(v) || null, parseInt(v) || null
A_numberOrNull(x) == IF Truthy(ParseFloat(x)) THEN x ELSE Null

\* v ? parseFloat(v) : 0
A_fee(x) == IF x = Empty THEN Num(0) ELSE x

\* parseFloat(v) || 0
A_numberOrZero(x) == IF Truthy(ParseFloat(x)) THEN x ELSE Num(0)

\* recommendationAlgorithm: the recommended direction.  The entry is not
\* read; only the closed records with a high and a low are.
A_recommendationAlgorithm(recs) ==
    LET hist == {i \in DOMAIN recs :
                    /\ recs[i].hasResult
                    /\ recs[i].highDuringTrade # Null
                    /\ recs[i].lowDuringTrade # Null}
        dirOf(i) == IF DirOf(recs[i].directionTaken) = "" THEN "flat"
                    ELSE DirOf(recs[i].directionTaken)
        group(d) == {i \in hist : dirOf(i) = d}
        total(d) == Cardinality(group(d))
        win(d) == Cardinality({i \in group(d) : Positive(recs[i].profit)})
        den(d) == IF total(d) = 0 THEN 1 ELSE total(d)
    IN  IF win("short") * den("long") > win("long") * den("short")
        THEN "short"
        ELSE IF win("long") > 0 THEN "long" ELSE "flat"

\* The record the entry form's submit handler builds.
A_newRecord(f, id, t, prediction) ==
    [id |-> id, createdAt |-> t, updatedAt |-> t,
     symbol |-> f.symbol, directionPlanned |-> f.directionPlanned,
     entryPrice |-> A_numberOrNull(f.entryPrice),
     size |-> A_numberOrNull(f.size), feePerUnit |-> A_fee(f.feePerUnit),
     ind |-> [f.ind EXCEPT ![1] = ""], minWinRate |-> Null,
     marketMemo |-> f.marketMemo, imageData |-> Null,
     recommendation |-> prediction,
     hasResult |-> FALSE, datetimeExit |-> Null, exitPrice |-> Null,
     directionTaken |-> Null, highDuringTrade |-> Null,
     lowDuringTrade |-> Null, profit |-> Null, resultMemo |-> Str("")]

\* The assignments of the result form's and the edit form's result section.
A_setResultFields(rec, x) ==
    [rec EXCEPT
       !.datetimeExit = x.datetimeExit,
       !.exitPrice = NumOrNull(x.exitPrice),
       !.directionTaken = Str(x.directionTaken),
       !.highDuringTrade = NumOrNull(x.highDuringTrade),
       !.lowDuringTrade = NumOrNull(x.lowDuringTrade),
       !.profit = NumOrNull(x.profit),
       !.resultMemo = Str(x.note)]

\* finishUpdate
A_finishUpdate(rec, t) == [rec EXCEPT !.hasResult = TRUE, !.updatedAt = t]

\* The edit form's submit handler: the record after the update.
A_editRecord(rec, f, hasRes, x, t) ==
    LET entry == [rec EXCEPT
                    !.symbol = f.symbol,
                    !.directionPlanned = f.directionPlanned,
                    !.entryPrice = ParseFloat(f.entryPrice),
                    !.size = ParseFloat(f.size),
                    !.feePerUnit = A_numberOrZero(f.feePerUnit),
                    !.ind = [f.ind EXCEPT ![1] = ""],
                    !.marketMemo = f.marketMemo,
                    !.hasResult = hasRes,
                    !.updatedAt = t]
    IN  IF hasRes THEN A_setResultFields(entry, x)
        ELSE [entry EXCEPT
                !.datetimeExit = Null, !.exitPrice = Null,
                !.directionTaken = Null, !.highDuringTrade = Null,
                !.lowDuringTrade = Null, !.profit = Null,
                !.resultMemo = Str("")]

\* updatedAt || createdAt (0 stands for an absent stamp)
A_stamp(r) == IF r.updatedAt # 0 THEN r.updatedAt ELSE r.createdAt

\* mergeImportedRecords, made on the records array itself.  replaced is the
\* set of positions that were given another object.
RECURSIVE A_merge(_, _, _, _, _)
A_merge(recs, items, added, updated, replaced) ==
    IF items = <<>>
    THEN [recs |-> recs, added |-> added, updated |-> updated,
          replaced |-> replaced, threw |-> FALSE]
    ELSE LET imp == Head(items)
             idx == IndexOf(recs, imp.id)
         IN  IF IsNullElement(imp) /\ recs # <<>>
             THEN [recs |-> recs, added |-> added, updated |-> updated,
                   replaced |-> replaced, threw |-> TRUE]
             ELSE IF idx = 0
             THEN A_merge(Append(recs, imp), Tail(items), added + 1, updated,
                          replaced)
             ELSE IF A_stamp(imp) > A_stamp(recs[idx])
             THEN A_merge([recs EXCEPT ![idx] = imp], Tail(items),
                          added, updated + 1, replaced \cup {idx})
             ELSE A_merge(recs, Tail(items), added, updated, replaced)

\* The pending reads after the merge: a read whose record was replaced
\* keeps the object it was started on.
A_detach(pend, recs, replaced) ==
    [k \in DOMAIN pend |->
        IF pend[k].idx \in replaced /\ ~pend[k].detached
        THEN [pend[k] EXCEPT !.detached = TRUE, !.obj = recs[pend[k].idx]]
        ELSE pend[k]]

\* The exit forms of A: the image input may hold a file.
A_ExitForms == {ExitFull, ExitBlank, ExitWithImage}

\* The entry forms submitted and the contents given to the edit form.
A_EntryForms == {FormLong, FormShort}
A_EditForms == {FormShort, FormNoPrice}

\* The files imported.
A_Files ==
    {File("garbage", Null, "absent", <<>>),
     File("object", Num(2), "array", <<ImportedClosed(ForeignId, 1)>>),
     File("object", Num(1), "absent", <<>>)}
    \cup {File("object", Num(1), "array", it) :
            it \in {<<ImportedClosed(ForeignId, 1)>>,
                    <<ImportedClosed(ForeignId, 2)>>,
                    <<ImportedClosed(ForeignId, 1), NullElement>>}}

\* btn-predict
A_predict ==
    /\ last' = Last("judge", 0, TRUE, "")
    /\ lastPrediction' = Str(A_recommendationAlgorithm(records))
    /\ UNCHANGED <<records, stored, editingEntryId, editingExitId, pending,
                   now, nextId>>
    /\ UNCHANGED <<tabs, view, form>>

\* entry-form submit
A_entrySubmit ==
    /\ Len(records) < MaxRecords
    /\ nextId <= MaxIds
    /\ \E f \in A_EntryForms, t \in 1..MaxClock :
         /\ Stamp(t)
         /\ records' = Append(records,
                A_newRecord(f, nextId, t,
                    IF lastPrediction # Null THEN lastPrediction
                    ELSE Str(A_recommendationAlgorithm(records))))
         /\ last' = Last("judgeSave", nextId, TRUE, FormClass(f))
    /\ stored' = Stringify(records')
    /\ lastPrediction' = Null
    /\ editingExitId' = 0
    /\ nextId' = nextId + 1
    /\ UNCHANGED <<editingEntryId, pending>>
    /\ UNCHANGED <<tabs, view, form>>

\* selectEntry change: one of the records without a result is selected
A_selectEntry ==
    /\ \E i \in DOMAIN records :
         /\ ~records[i].hasResult
         /\ editingExitId' = records[i].id
         /\ last' = Last("selectExit", records[i].id, TRUE, "")
    /\ UNCHANGED <<records, stored, editingEntryId, pending, lastPrediction,
                   now, nextId>>
    /\ UNCHANGED <<tabs, view, form>>

\* result-form submit with no record selected
A_resultSubmitNone ==
    /\ editingExitId \notin Ids(records)
    /\ last' = Last("saveResult", editingExitId, FALSE, "")
    /\ UNCHANGED <<records, stored, editingEntryId, editingExitId, pending,
                   lastPrediction, now, nextId>>
    /\ UNCHANGED <<tabs, view, form>>

\* result-form submit without an image: finishUpdate runs in the handler
A_resultSubmit ==
    /\ editingExitId \in Ids(records)
    /\ \E x \in A_ExitForms, t \in 1..MaxClock :
         LET idx == IndexOf(records, editingExitId)
         IN  /\ x.image = Null
             /\ Stamp(t)
             /\ records' = [records EXCEPT ![idx] =
                    A_finishUpdate(A_setResultFields(@, x), t)]
             /\ last' = Last("saveResult", editingExitId, TRUE, "")
    /\ stored' = Stringify(records')
    /\ editingExitId' = 0
    /\ UNCHANGED <<editingEntryId, pending, lastPrediction, nextId>>
    /\ UNCHANGED <<tabs, view, form>>

\* result-form submit with an image: the record is assigned the fields of
\* the form and the read of the image is started
A_resultSubmitImage ==
    /\ editingExitId \in Ids(records)
    /\ Len(pending) < MaxPending
    /\ \E x \in A_ExitForms :
         LET idx == IndexOf(records, editingExitId)
         IN  /\ x.image # Null
             /\ records' = [records EXCEPT ![idx] = A_setResultFields(@, x)]
             /\ pending' = Append(pending,
                    [idx |-> idx, image |-> x.image, detached |-> FALSE,
                     obj |-> Null])
             /\ last' = Last("readImage", editingExitId, TRUE, "")
    /\ UNCHANGED <<stored, editingEntryId, editingExitId, lastPrediction,
                   now, nextId>>
    /\ UNCHANGED <<tabs, view, form>>

\* reader.onload of the result form: finishUpdate
A_imageLoaded ==
    /\ pending # <<>>
    /\ \E t \in 1..MaxClock :
         LET p == Head(pending)
             rec == IF p.detached THEN p.obj ELSE records[p.idx]
         IN  /\ Stamp(t)
             /\ records' = [records EXCEPT ![p.idx] =
                    A_finishUpdate([rec EXCEPT !.imageData = p.image], t)]
             /\ last' = Last("saveResult", rec.id, TRUE, "image")
    /\ pending' = Tail(pending)
    /\ stored' = Stringify(records')
    /\ editingExitId' = 0
    /\ UNCHANGED <<editingEntryId, lastPrediction, nextId>>
    /\ UNCHANGED <<tabs, view, form>>

\* openEditModal
A_openEditModal ==
    /\ \E i \in DOMAIN records :
         /\ editingEntryId' = records[i].id
         /\ last' = Last("editEntry", records[i].id, TRUE, "")
    /\ UNCHANGED <<records, stored, editingExitId, pending, lastPrediction,
                   now, nextId>>
    /\ UNCHANGED <<tabs, view, form>>

\* close-modal
A_closeModal ==
    /\ editingEntryId # 0
    /\ editingEntryId' = 0
    /\ last' = Last("entryClear", 0, TRUE, "")
    /\ UNCHANGED <<records, stored, editingExitId, pending, lastPrediction,
                   now, nextId>>
    /\ UNCHANGED <<tabs, view, form>>

\* edit-form submit
A_editSubmit ==
    /\ editingEntryId \in Ids(records)
    /\ \E f \in A_EditForms, hasRes \in BOOLEAN, x \in ExitForms,
          t \in 1..MaxClock :
         LET idx == IndexOf(records, editingEntryId)
         IN  /\ hasRes \/ x = ExitBlank
             /\ Stamp(t)
             /\ records' = [records EXCEPT ![idx] =
                    A_editRecord(@, f, hasRes, x, t)]
             /\ last' = [Last("editSave", editingEntryId, TRUE, FormClass(f))
                           EXCEPT !.edit = TRUE]
    /\ stored' = Stringify(records')
    /\ editingEntryId' = 0
    /\ editingExitId' = 0
    /\ UNCHANGED <<pending, lastPrediction, nextId>>
    /\ UNCHANGED <<tabs, view, form>>

\* import-json change, reader.onload
A_import ==
    /\ \E file \in A_Files :
         LET m == A_merge(records, file.items, 0, 0, {})
         IN  IF file.kind # "object" \/ file.version # Num(1)
                \/ file.members # "array"
             THEN /\ last' = Last("import", 0, FALSE, FileClass(file))
                  /\ UNCHANGED <<records, stored, editingExitId, pending>>
             ELSE /\ Len(m.recs) <= MaxRecords
                  /\ records' = m.recs
                  /\ pending' = A_detach(pending, records, m.replaced)
                  /\ stored' = IF m.threw THEN stored ELSE Stringify(m.recs)
                  /\ editingExitId' = IF m.threw THEN editingExitId ELSE 0
                  /\ last' = [Last("import", 0, ~m.threw, FileClass(file))
                                EXCEPT !.added = m.added,
                                       !.updated = m.updated]
    /\ UNCHANGED <<editingEntryId, lastPrediction, now, nextId>>
    /\ UNCHANGED <<tabs, view, form>>

\* the page is loaded again: loadRecords; the reads in flight are dropped
A_loadRecords ==
    /\ records' = stored
    /\ editingEntryId' = 0
    /\ editingExitId' = 0
    /\ pending' = <<>>
    /\ lastPrediction' = Null
    /\ last' = Last("load", 0, TRUE, "")
    /\ UNCHANGED <<stored, now, nextId>>
    /\ UNCHANGED <<tabs, view, form>>

NextA ==
    \/ A_predict
    \/ A_entrySubmit
    \/ A_selectEntry
    \/ A_resultSubmitNone
    \/ A_resultSubmit
    \/ A_resultSubmitImage
    \/ A_imageLoaded
    \/ A_openEditModal
    \/ A_closeModal
    \/ A_editSubmit
    \/ A_import
    \/ A_loadRecords

----------------------------------------------------------------------------
(* Loading from a storage the application did not write.  The stored       *)
(* value is absent, text that is not JSON, or JSON of some kind: an array  *)
(* of records, an object, a number, a string or null.  In SpecLoad the     *)
(* variable stored holds that value and records the value the load leaves  *)
(* in use, both as [kind, items]; a behaviour loads with one variant.      *)

Raw(kind, items) == [kind |-> kind, items |-> items]
Arr(items) == Raw("array", items)

StoredRecords ==
    {ImportedClosed(1, 1), ImportedClosed(1, 2), ImportedClosed(2, 1),
     ImportedClosed(2, 2)}

StoredArrays ==
    {<<>>} \cup {<<r>> : r \in StoredRecords}
           \cup {<<r, q>> : r \in StoredRecords, q \in StoredRecords}

StoredValues ==
    {Raw(k, <<>>) :
        k \in {"absent", "garbage", "object", "number", "string", "null"}}
    \cup {Arr(it) : it \in StoredArrays}

\* What a load gives: the value in use, whether it threw, and the storage.
Loaded(value, threw, raw) == [value |-> value, threw |-> threw, stored |-> raw]

\* A: loadRecords.  records keeps its value when nothing is stored, is []
\* when JSON.parse throws, and is whatever JSON.parse returned otherwise.
A_loadRecordsFrom(raw, current) ==
    CASE raw.kind = "absent" -> Loaded(current, FALSE, raw)
      [] raw.kind = "garbage" -> Loaded(Arr(<<>>), FALSE, raw)
      [] OTHER -> Loaded(raw, FALSE, raw)

\* B: getTrades.  JSON.parse runs outside any try.
B_getTradesFrom(raw, current) ==
    CASE raw.kind = "absent" -> Loaded(Arr(<<>>), FALSE, raw)
      [] raw.kind = "garbage" -> Loaded(current, TRUE, raw)
      [] OTHER -> Loaded(raw, FALSE, raw)

\* C: loadRecords.
C_loadRecordsFrom(raw, current) ==
    IF raw.kind = "array" THEN Loaded(raw, FALSE, raw)
    ELSE Loaded(Arr(<<>>), FALSE, raw)

\* D: loadTradeRecords.  A value that is not an array is replaced by [].
D_loadTradeRecordsFrom(raw, current) ==
    CASE raw.kind = "absent" -> Loaded(Arr(<<>>), FALSE, raw)
      [] raw.kind = "array" -> Loaded(raw, FALSE, raw)
      [] OTHER -> Loaded(Arr(<<>>), FALSE, Arr(<<>>))

\* E: loadRecords.  A value that is not an array is replaced by [].
E_loadRecordsFrom(raw, current) ==
    CASE raw.kind = "absent" -> Loaded(Arr(<<>>), FALSE, raw)
      [] raw.kind = "array" -> Loaded(raw, FALSE, raw)
      [] OTHER -> Loaded(Arr(<<>>), FALSE, Arr(<<>>))

\* The page is loaded by one variant: its load, applied to the storage.
LoadEffect(variant, l) ==
    /\ records' = l.value
    /\ stored' = l.stored
    /\ last' = Last("load", 0, ~l.threw, variant)

A_pageLoad ==
    /\ last.op = "init" \/ last.arg = "A"
    /\ LoadEffect("A", A_loadRecordsFrom(stored, Arr(<<>>)))
    /\ UNCHANGED <<editingEntryId, editingExitId, pending, lastPrediction,
                   now, nextId>>
    /\ UNCHANGED <<tabs, view, form>>

B_pageLoad ==
    /\ last.op = "init" \/ last.arg = "B"
    /\ LoadEffect("B", B_getTradesFrom(stored, Arr(<<>>)))
    /\ UNCHANGED <<editingEntryId, editingExitId, pending, lastPrediction,
                   now, nextId>>
    /\ UNCHANGED <<tabs, view, form>>

C_pageLoad ==
    /\ last.op = "init" \/ last.arg = "C"
    /\ LoadEffect("C", C_loadRecordsFrom(stored, Arr(<<>>)))
    /\ UNCHANGED <<editingEntryId, editingExitId, pending, lastPrediction,
                   now, nextId>>
    /\ UNCHANGED <<tabs, view, form>>

D_pageLoad ==
    /\ last.op = "init" \/ last.arg = "D"
    /\ LoadEffect("D", D_loadTradeRecordsFrom(stored, Arr(<<>>)))
    /\ UNCHANGED <<editingEntryId, editingExitId, pending, lastPrediction,
                   now, nextId>>
    /\ UNCHANGED <<tabs, view, form>>

E_pageLoad ==
    /\ last.op = "init" \/ last.arg = "E"
    /\ LoadEffect("E", E_loadRecordsFrom(stored, Arr(<<>>)))
    /\ UNCHANGED <<editingEntryId, editingExitId, pending, lastPrediction,
                   now, nextId>>
    /\ UNCHANGED <<tabs, view, form>>

NextLoad ==
    \/ A_pageLoad
    \/ B_pageLoad
    \/ C_pageLoad
    \/ D_pageLoad
    \/ E_pageLoad

InitLoad ==
    /\ stored \in StoredValues
    /\ records = Arr(<<>>)
    /\ editingEntryId = 0
    /\ editingExitId = 0
    /\ pending = <<>>
    /\ lastPrediction = Null
    /\ now = 0
    /\ nextId = 1
    /\ last = Last("init", 0, TRUE, "")
    /\ tabs = InitialTabs
    /\ view = Null
    /\ form = Null

----------------------------------------------------------------------------
(* The recommendation engines as functions of a candidate entry and a      *)
(* history.  Each engine returns, next to the recommended direction, a     *)
(* confidence from 0 to 100; the operators below compute it as the code    *)
(* does, fractions being rounded on integers.                              *)

\* computePrediction without the clamp of the score to 0..100.
B_confidenceUnclamped(entry, recs) ==
    LET trades == {i \in DOMAIN recs : recs[i].hasResult}
        match(l) == {i \in trades :
                        \A k \in B_levels[l] : recs[i].ind[k] = entry.ind[k]}
        usedLevel == B_usedLevel(entry, recs, 1)
        matched == match(usedLevel)
        group(d) == {i \in matched : recs[i].directionTaken = Str(d)}
        count(d) == Cardinality(group(d))
        wins(d) == Cardinality({i \in group(d) : Positive(recs[i].profit)})
        den(n) == IF n = 0 THEN 1 ELSE n
        bonus == CASE usedLevel = 1 -> 20
                   [] usedLevel = 2 -> 10
                   [] usedLevel = 3 -> 0
                   [] usedLevel = 4 -> 0 - 10
                   [] OTHER -> 0 - 20
        samples == IF Cardinality(matched) * 5 < 20
                   THEN Cardinality(matched) * 5 ELSE 20
        \* |winRate(long) - winRate(short)| * 100 = diffNum / diffDen
        cross == wins("long") * den(count("short"))
                   - wins("short") * den(count("long"))
        diffNum == 100 * (IF cross < 0 THEN 0 - cross ELSE cross)
        diffDen == den(count("long")) * den(count("short"))
        base == 50 + bonus + samples + (2 * diffNum + diffDen) \div (2 * diffDen)
    IN  base

\* computePrediction: the confidence.
B_confidence(entry, recs) ==
    LET trades == {i \in DOMAIN recs : recs[i].hasResult}
        match(l) == {i \in trades :
                        \A k \in B_levels[l] : recs[i].ind[k] = entry.ind[k]}
        usedLevel == B_usedLevel(entry, recs, 1)
        matched == match(usedLevel)
        group(d) == {i \in matched : recs[i].directionTaken = Str(d)}
        count(d) == Cardinality(group(d))
        wins(d) == Cardinality({i \in group(d) : Positive(recs[i].profit)})
        den(n) == IF n = 0 THEN 1 ELSE n
        bonus == CASE usedLevel = 1 -> 20
                   [] usedLevel = 2 -> 10
                   [] usedLevel = 3 -> 0
                   [] usedLevel = 4 -> 0 - 10
                   [] OTHER -> 0 - 20
        samples == IF Cardinality(matched) * 5 < 20
                   THEN Cardinality(matched) * 5 ELSE 20
        \* |winRate(long) - winRate(short)| * 100 = diffNum / diffDen
        cross == wins("long") * den(count("short"))
                   - wins("short") * den(count("long"))
        diffNum == 100 * (IF cross < 0 THEN 0 - cross ELSE cross)
        diffDen == den(count("long")) * den(count("short"))
        base == 50 + bonus + samples + (2 * diffNum + diffDen) \div (2 * diffDen)
    IN  IF base < 0 THEN 0 ELSE IF base > 100 THEN 100 ELSE base

\* predictTrade: the confidence.
C_confidence(ind, recs) ==
    LET match(l) == {i \in DOMAIN recs :
                        \A k \in C_levels[l] : recs[i].ind[k] = ind[k]}
        levelUsed == C_levelUsed(ind, recs, 1)
        n == Cardinality(match(levelUsed))
        c == IF n < C_MinSimilar
             THEN 5 * n - levelUsed * 5
             ELSE 30 + n * 5 - levelUsed * 10
    IN  IF c < 0 THEN 0 ELSE IF c > 100 THEN 100 ELSE c

\* judgeTrade of variant D: the confidence.
D_confidence(entry, recs) ==
    LET similar == {i \in DOMAIN recs :
                      /\ recs[i].symbol = entry.symbol
                      /\ recs[i].hasResult
                      /\ D_matches(entry, recs[i]) * 2 >= NumFeatures}
        group(d) == {i \in similar : recs[i].directionTaken = Str(d)}
        count(d) == Cardinality(group(d))
        winners(d) == {i \in group(d) : ProfitOrZero(recs[i].profit) > 0}
        losers(d) == {i \in group(d) : ProfitOrZero(recs[i].profit) < 0}
        winCount(d) == Cardinality(winners(d))
        den(S) == IF S = {} THEN 1 ELSE Cardinality(S)
        scoreNum(d) == ProfitSum(recs, winners(d)) * den(losers(d))
                       + ProfitSum(recs, losers(d)) * den(winners(d))
        scoreDen(d) == den(winners(d)) * den(losers(d))
        shortWins ==
            \/ count("long") = 0
            \/ winCount("short") * count("long")
                  > winCount("long") * count("short")
            \/ /\ winCount("short") * count("long")
                    = winCount("long") * count("short")
               /\ scoreNum("short") * scoreDen("long")
                    > scoreNum("long") * scoreDen("short")
        candidateDirection ==
            IF count("short") > 0 /\ shortWins THEN "short"
            ELSE IF count("long") > 0 THEN "long"
            ELSE ""
        pseudoCaseCount == Cardinality(similar)
        \* confScore = confNum / confDen
        confNum == 100 * pseudoCaseCount * winCount(candidateDirection)
        confDen == (pseudoCaseCount + 5) * count(candidateDirection)
    IN  IF similar = {} \/ candidateDirection = "" THEN 0
        ELSE (2 * confNum + confDen) \div (2 * confDen)

\* judgeTrade of variant E: the confidence.
E_confidence(entry, recs) ==
    LET similar == {i \in DOMAIN recs :
                      /\ recs[i].hasResult
                      /\ E_matches(entry, recs[i]) * 10 >= 4 * NumFeatures}
        group(d) == {i \in similar : recs[i].directionTaken = Str(d)}
        total(d) == Cardinality(group(d))
        wins(d) == Cardinality({i \in group(d) : Positive(recs[i].profit)})
        order == <<"long", "short", "flat">>
        cands == {k \in 1..3 : total(order[k]) > 0}
        higher(a, b) == wins(a) * total(b) > wins(b) * total(a)
        bestK == CHOOSE k \in cands :
                    /\ \A j \in cands : ~higher(order[j], order[k])
                    /\ \A j \in cands : j < k => higher(order[k], order[j])
        conf == IF cands = {} THEN 5 * Cardinality(similar)
                ELSE 5 * Cardinality(similar)
                       + (50 * wins(order[bestK])) \div total(order[bestK])
    IN  IF similar = {} THEN 0
        ELSE IF conf > 100 THEN 100 ELSE conf

\* The candidate entry with indicator profile p.
EngineEntry(p) == [symbol |-> "nk225mc", ind |-> p, minWinRate |-> Null]

\* Indicator profiles that agree with P0 from tier t on and on no tier
\* before it; tier 6 is agreement on no tier.
TierProfile(t) ==
    CASE t = 1 -> P0
      [] t = 2 -> [P0 EXCEPT ![4] = "dark_red"]
      [] t = 3 -> [P0 EXCEPT ![7] = "dc"]
      [] t = 4 -> [P0 EXCEPT ![3] = "below"]
      [] t = 5 -> [P0 EXCEPT ![6] = "negative"]
      [] OTHER -> [P0 EXCEPT ![2] = "Stage4"]

\* A closed long trade that won, and an entry saved without a result.
EngineClosed(id, p) ==
    [id |-> id, createdAt |-> 1, updatedAt |-> 1,
     symbol |-> "nk225mc", directionPlanned |-> "long",
     entryPrice |-> Num(100), size |-> Num(1), feePerUnit |-> Num(0),
     ind |-> p, minWinRate |-> Null, marketMemo |-> "",
     imageData |-> Null, recommendation |-> Str("flat"),
     hasResult |-> TRUE, datetimeExit |-> Str("x0"), exitPrice |-> Num(120),
     directionTaken |-> Str("long"), highDuringTrade |-> Num(130),
     lowDuringTrade |-> Num(95), profit |-> Num(20), resultMemo |-> Str("")]
EngineOpen(id, p) ==
    [EngineClosed(id, p) EXCEPT
       !.hasResult = FALSE, !.datetimeExit = Null, !.exitPrice = Null,
       !.directionTaken = Str(""), !.highDuringTrade = Null,
       !.lowDuringTrade = Null, !.profit = Null]

MaxOpen == 5
PoolSize == 3

\* Histories: no closed trade or PoolSize closed trades of one profile,
\* followed by up to MaxOpen open entries of one profile.
EngineHistories ==
    {[i \in 1..(c + n) |->
         IF i <= c THEN EngineClosed(i, TierProfile(tc))
         ELSE EngineOpen(i, TierProfile(to))] :
       c \in {0, PoolSize}, tc \in {1, 2, 3, 4, 5, 6},
       n \in 0..MaxOpen, to \in {1, 5}}

\* What an engine computed: its result, and for the tiered engines the
\* level the loop stopped at (usedLevel, levelUsed) and the records matched
\* at that level.
EngineResult(variant, p, recommendation, confidence) ==
    [variant |-> variant, ind |-> p, recommendation |-> recommendation,
     confidence |-> confidence, level |-> 0, matched |-> {}]

B_engine ==
    /\ \E p \in {P0, P1} :
         LET usedLevel == B_usedLevel(EngineEntry(p), records, 1)
         IN  lastPrediction' =
                [EngineResult("B", p,
                              B_computePrediction(EngineEntry(p), records),
                              B_confidence(EngineEntry(p), records))
                   EXCEPT !.level = usedLevel,
                          !.matched = B_matched(EngineEntry(p), records,
                                                usedLevel)]
    /\ last' = Last("judge", 0, TRUE, "B")
    /\ UNCHANGED <<records, stored, editingEntryId, editingExitId, pending,
                   now, nextId>>
    /\ UNCHANGED <<tabs, view, form>>

C_engine ==
    /\ \E p \in {P0, P1} :
         LET levelUsed == C_levelUsed(p, records, 1)
         IN  lastPrediction' =
                [EngineResult("C", p, C_predictTrade(p, records),
                              C_confidence(p, records))
                   EXCEPT !.level = levelUsed,
                          !.matched = C_similar(p, records, levelUsed)]
    /\ last' = Last("judge", 0, TRUE, "C")
    /\ UNCHANGED <<records, stored, editingEntryId, editingExitId, pending,
                   now, nextId>>
    /\ UNCHANGED <<tabs, view, form>>

D_engine ==
    /\ \E p \in {P0, P1} :
         lastPrediction' =
            EngineResult("D", p, D_judgeTrade(EngineEntry(p), records),
                         D_confidence(EngineEntry(p), records))
    /\ last' = Last("judge", 0, TRUE, "D")
    /\ UNCHANGED <<records, stored, editingEntryId, editingExitId, pending,
                   now, nextId>>
    /\ UNCHANGED <<tabs, view, form>>

E_engine ==
    /\ \E p \in {P0, P1} :
         lastPrediction' =
            EngineResult("E", p, E_judgeTrade(EngineEntry(p), records),
                         E_confidence(EngineEntry(p), records))
    /\ last' = Last("judge", 0, TRUE, "E")
    /\ UNCHANGED <<records, stored, editingEntryId, editingExitId, pending,
                   now, nextId>>
    /\ UNCHANGED <<tabs, view, form>>

NextEngine ==
    \/ B_engine
    \/ C_engine
    \/ D_engine
    \/ E_engine

InitEngine ==
    /\ records \in EngineHistories
    /\ stored = records
    /\ editingEntryId = 0
    /\ editingExitId = 0
    /\ pending = <<>>
    /\ lastPrediction = Null
    /\ now = 0
    /\ nextId = 1
    /\ last = Last("init", 0, TRUE, "")
    /\ tabs = InitialTabs
    /\ view = Null
    /\ form = Null

----------------------------------------------------------------------------
(* The tab handlers, on a page that holds one or two records.              *)

TabEffect(variant, op, id, t) ==
    /\ last.op = "init" \/ last.arg = variant
    /\ tabs' = t
    /\ last' = Last(op, id, TRUE, variant)

\* a click on a .tab-button, variant A
A_tabClick ==
    /\ tabs.button \subseteq TabNames
    /\ \E name \in TabNames :
         TabEffect("A", "tab", 0,
                   [button |-> (tabs.button \ TabNames) \cup {name},
                    section |-> (tabs.section \ TabNames) \cup {name},
                    clicked |-> name])
    /\ UNCHANGED <<records, stored, editingEntryId, editingExitId, pending,
                   lastPrediction, now, nextId>>
    /\ UNCHANGED <<view, form>>

\* a click on a .tab, variant B
B_tabClick ==
    /\ tabs.button \subseteq TabNames
    /\ \E name \in TabNames :
         TabEffect("B", "tab", 0, B_tabClicked(tabs, name))
    /\ UNCHANGED <<records, stored, editingEntryId, editingExitId, pending,
                   lastPrediction, now, nextId>>
    /\ UNCHANGED <<view, form>>

\* an edit button of the analysis table, with the click it issues
B_editTab ==
    /\ tabs.button \subseteq TabNames
    /\ \E i \in DOMAIN stored :
         /\ editingEntryId' = stored[i].id
         /\ TabEffect("B", "editEntry", stored[i].id,
                      B_tabClicked(tabs, "entry"))
    /\ UNCHANGED <<records, stored, editingExitId, pending, lastPrediction,
                   now, nextId>>
    /\ UNCHANGED <<view, form>>

\* a click on tab-new or tab-list, variant C
C_tabClick ==
    /\ tabs.button \subseteq {"new", "list"}
    /\ \E name \in {"new", "list"} :
         TabEffect("C", "tab", 0, C_switchTab(tabs, name))
    /\ UNCHANGED <<records, stored, editingEntryId, editingExitId, pending,
                   lastPrediction, now, nextId>>
    /\ UNCHANGED <<view, form>>

\* a click on a .tab-button, variant D
D_tabClick ==
    /\ tabs.button \subseteq TabNames
    /\ \E name \in TabNames :
         TabEffect("D", "tab", 0, D_tabClicked(tabs, name))
    /\ UNCHANGED <<records, stored, editingEntryId, editingExitId, pending,
                   lastPrediction, now, nextId>>
    /\ UNCHANGED <<view, form>>

\* editEntry, with the click it issues
D_editEntryTab ==
    /\ tabs.button \subseteq TabNames
    /\ \E i \in DOMAIN records :
         /\ editingEntryId' = records[i].id
         /\ TabEffect("D", "editEntry", records[i].id,
                      D_tabClicked(tabs, "entry"))
    /\ UNCHANGED <<records, stored, editingExitId, pending, lastPrediction,
                   now, nextId>>
    /\ UNCHANGED <<view, form>>

\* editExit, with the click it issues
D_editExitTab ==
    /\ tabs.button \subseteq TabNames
    /\ \E i \in DOMAIN records :
         /\ editingExitId' = records[i].id
         /\ TabEffect("D", "selectExit", records[i].id,
                      D_tabClicked(tabs, "exit"))
    /\ UNCHANGED <<records, stored, editingEntryId, pending, lastPrediction,
                   now, nextId>>
    /\ UNCHANGED <<view, form>>

\* a click on a .tab-button, variant E
E_tabClick ==
    /\ tabs.button \subseteq TabNames
    /\ \E name \in TabNames :
         TabEffect("E", "tab", 0, E_tabClicked(tabs, name))
    /\ UNCHANGED <<records, stored, editingEntryId, editingExitId, pending,
                   lastPrediction, now, nextId>>
    /\ UNCHANGED <<view, form>>

\* populateEntryForm, with the click it issues
E_populateEntryFormTab ==
    /\ tabs.button \subseteq TabNames
    /\ \E i \in DOMAIN records :
         /\ editingEntryId' = records[i].id
         /\ TabEffect("E", "editEntry", records[i].id,
                      E_tabClicked(tabs, "entry"))
    /\ UNCHANGED <<records, stored, editingExitId, pending, lastPrediction,
                   now, nextId>>
    /\ UNCHANGED <<view, form>>

\* the click on a record of the list, with the click on the exit tab it
\* issues
E_selectExitTab ==
    /\ tabs.button \subseteq TabNames
    /\ \E i \in DOMAIN records :
         /\ editingExitId' = records[i].id
         /\ TabEffect("E", "selectExit", records[i].id,
                      E_tabClicked(tabs, "exit"))
    /\ UNCHANGED <<records, stored, editingEntryId, pending, lastPrediction,
                   now, nextId>>
    /\ UNCHANGED <<view, form>>

NextTabs ==
    \/ A_tabClick
    \/ B_tabClick
    \/ B_editTab
    \/ C_tabClick
    \/ D_tabClick
    \/ D_editEntryTab
    \/ D_editExitTab
    \/ E_tabClick
    \/ E_populateEntryFormTab
    \/ E_selectExitTab

InitTabs ==
    /\ records \in {<<ImportedClosed(1, 1)>>,
                    <<ImportedClosed(1, 1), ImportedClosed(2, 1)>>}
    /\ stored = records
    /\ editingEntryId = 0
    /\ editingExitId = 0
    /\ pending = <<>>
    /\ lastPrediction = Null
    /\ now = 0
    /\ nextId = 1
    /\ last = Last("init", 0, TRUE, "")
    /\ tabs \in {InitialTabs, C_InitialTabs}
    /\ view = Null
    /\ form = Null

----------------------------------------------------------------------------
(* The filters of the analysis view, as functions of the filter inputs and *)
(* the collection.  An instant is a number, DayLength instants to the day; *)
(* a date input yields the first instant of its day, as new Date does for  *)
(* a date without a time (the browser's zone being UTC).  A row carries    *)
(* the fields the filters read.                                            *)

DayLength == 2

Midnight(day) == day * DayLength

\* datetimeEntry.substr(0, 10): the day of an instant
DayOf(instant) == instant \div DayLength

\* new Date(x).getTime() for an instant or null (the epoch)
GetTime(x) == IF IsNum(x) THEN x.v ELSE 0

\* String.prototype.includes on the instrument names in use
Includes(symbol, part) ==
    part = symbol \/ <<part, symbol>> \in {<<"nk225", "nk225mc">>}

FilterRow(id, symbol, datetimeEntry, createdAt) ==
    [id |-> id, symbol |-> symbol, datetimeEntry |-> datetimeEntry,
     createdAt |-> createdAt, hasResult |-> TRUE, profit |-> Num(10)]

\* The filter inputs: an instrument ("" when unset), a start day and an
\* end day (0 when unset).
Filter(symbol, start, end) == [symbol |-> symbol, start |-> start, end |-> end]

\* buildTable: the rows kept.
B_buildTable(f, trades) ==
    SelectSeq(trades, LAMBDA t :
        /\ f.symbol # "" => Includes(t.symbol, f.symbol)
        /\ f.start # 0 => ~(GetTime(t.datetimeEntry) < Midnight(f.start))
        /\ f.end # 0 => ~(GetTime(t.datetimeEntry) > Midnight(f.end)))

\* updateCharts: the rows fed to the charts.
B_updateCharts(f, trades) ==
    SelectSeq(trades, LAMBDA t :
        /\ f.symbol # "" => Includes(t.symbol, f.symbol)
        /\ f.start # 0 => ~(GetTime(t.datetimeEntry) < Midnight(f.start))
        /\ f.end # 0 => ~(GetTime(t.datetimeEntry) > Midnight(f.end)))

\* applyFilters with the date filters applied to the whole collection
\* instead of the rows the instrument filter kept.
C_applyFiltersDatesOverAll(f, recs) ==
    LET byFrom == IF f.start # 0
                  THEN SelectSeq(recs, LAMBDA r :
                          GetTime(r.datetimeEntry) >= Midnight(f.start))
                  ELSE IF f.symbol # ""
                       THEN SelectSeq(recs, LAMBDA r : Includes(r.symbol, f.symbol))
                       ELSE recs
    IN  IF f.end # 0
        THEN SelectSeq(byFrom, LAMBDA r :
                GetTime(r.datetimeEntry) <= Midnight(f.end) + DayLength - 1)
        ELSE byFrom

\* applyFilters: the rows kept; refreshTable and refreshCharts both call it.
C_applyFilters(f, recs) ==
    LET bySymbol == IF f.symbol # ""
                    THEN SelectSeq(recs, LAMBDA r : Includes(r.symbol, f.symbol))
                    ELSE recs
        byFrom == IF f.start # 0
                  THEN SelectSeq(bySymbol, LAMBDA r :
                          GetTime(r.datetimeEntry) >= Midnight(f.start))
                  ELSE bySymbol
    IN  IF f.end # 0
        THEN SelectSeq(byFrom, LAMBDA r :
                GetTime(r.datetimeEntry) <= Midnight(f.end) + DayLength - 1)
        ELSE byFrom

\* updateStats: the rows kept, which are the rows drawCharts receives.  A
\* row without datetimeEntry has the empty string for its day, which is
\* before every date.
E_updateStats(f, recs) ==
    LET dt(r) == IF r.datetimeEntry # Null THEN DayOf(r.datetimeEntry.v) ELSE 0
        bySymbol == IF f.symbol # ""
                    THEN SelectSeq(recs, LAMBDA r : r.symbol = f.symbol)
                    ELSE recs
        byStart == IF f.start # 0
                   THEN SelectSeq(bySymbol, LAMBDA r : dt(r) >= f.start)
                   ELSE bySymbol
    IN  IF f.end # 0
        THEN SelectSeq(byStart, LAMBDA r : dt(r) <= f.end)
        ELSE byStart

FilterDay == 2

Filters ==
    {Filter(s, a, b) : s \in {"", "nk225", "nk225mc"}, a \in {0, FilterDay},
                       b \in {0, FilterDay}}

FilterRows(id) ==
    {FilterRow(id, s, dt, c) :
       s \in {"nk225", "nk225mc"},
       dt \in {Null, Num(Midnight(FilterDay) - 1), Num(Midnight(FilterDay)),
               Num(Midnight(FilterDay) + DayLength - 1),
               Num(Midnight(FilterDay + 1))},
       c \in {Midnight(FilterDay) + DayLength - 1, Midnight(FilterDay + 1)}}

View(variant, f, table, chart) ==
    [variant |-> variant, filter |-> f, table |-> table, chart |-> chart]

\* an input event on a filter of the analysis tab, variant B
B_filterInput ==
    /\ \E f \in Filters :
         view' = View("B", f, B_buildTable(f, records),
                      B_updateCharts(f, records))
    /\ last' = Last("filter", 0, TRUE, "B")
    /\ UNCHANGED <<records, stored, editingEntryId, editingExitId, pending,
                   lastPrediction, now, nextId, tabs, form>>

\* a change of a filter of the list tab, variant C
C_filterChange ==
    /\ \E f \in Filters :
         view' = View("C", f, C_applyFilters(f, records),
                      C_applyFilters(f, records))
    /\ last' = Last("filter", 0, TRUE, "C")
    /\ UNCHANGED <<records, stored, editingEntryId, editingExitId, pending,
                   lastPrediction, now, nextId, tabs, form>>

\* a change of a filter of the statistics tab, variant E
E_filterChange ==
    /\ \E f \in Filters :
         view' = View("E", f, E_updateStats(f, records),
                      E_updateStats(f, records))
    /\ last' = Last("filter", 0, TRUE, "E")
    /\ UNCHANGED <<records, stored, editingEntryId, editingExitId, pending,
                   lastPrediction, now, nextId, tabs, form>>

NextFilter ==
    \/ B_filterInput
    \/ C_filterChange
    \/ E_filterChange

InitFilter ==
    /\ records \in {<<r, q>> : r \in FilterRows(1), q \in FilterRows(2)}
    /\ stored = records
    /\ editingEntryId = 0
    /\ editingExitId = 0
    /\ pending = <<>>
    /\ lastPrediction = Null
    /\ now = 0
    /\ nextId = 1
    /\ last = Last("init", 0, TRUE, "")
    /\ tabs = InitialTabs
    /\ view = Null
    /\ form = Null

----------------------------------------------------------------------------
(* The entry form of variants D and E: the fields the user fills, the     *)
(* edit handlers load and clearEntryForm resets.  The record              *)
(* specifications take the form's content as an input of each handler;    *)
(* here it is state, so that a handler reads what the handler before it   *)
(* left in the fields.                                                     *)

\* a numeric input showing a record's value
ToInput(x) == IF IsNum(x) THEN x ELSE Empty

\* clearEntryForm of variant D: the fields afterwards
D_clearEntryForm ==
    [symbol |-> "nk225mc", directionPlanned |-> "long",
     entryPrice |-> Empty, size |-> Empty, feePerUnit |-> Empty,
     ind |-> <<"HH", "Stage1", "above", "dark_green", "pivot", "positive",
               "gc", "neutral", "positive", "up", "over70">>,
     minWinRate |-> Num(30), marketMemo |-> "", image |-> Null]

\* clearEntryForm of variant E: the fields afterwards
E_clearEntryForm ==
    [symbol |-> "nk225mc", directionPlanned |-> "long",
     entryPrice |-> Empty, size |-> Empty, feePerUnit |-> Empty,
     ind |-> <<"HH", "Stage1", "above", "dark_green", "pivot", "positive",
               "gc", "post_gc", "positive", "up", "over70">>,
     minWinRate |-> Empty, marketMemo |-> "", image |-> Null]

\* editEntry of variant D: the fields after loading rec
D_editEntryForm(rec) ==
    [symbol |-> rec.symbol, directionPlanned |-> rec.directionPlanned,
     entryPrice |-> ToInput(rec.entryPrice), size |-> ToInput(rec.size),
     feePerUnit |-> ToInput(rec.feePerUnit), ind |-> rec.ind,
     minWinRate |-> IF rec.minWinRate # Null THEN rec.minWinRate ELSE Num(30),
     marketMemo |-> rec.marketMemo,
     image |-> OrElse(rec.imageData, Null)]

\* populateEntryForm of variant E: the fields after loading record
E_populateEntryFormFields(record) ==
    [symbol |-> record.symbol, directionPlanned |-> record.directionPlanned,
     entryPrice |-> ToInput(record.entryPrice), size |-> ToInput(record.size),
     feePerUnit |-> ToInput(record.feePerUnit), ind |-> record.ind,
     minWinRate |-> ToInput(record.minWinRate),
     marketMemo |-> record.marketMemo,
     image |-> OrElse(record.imageData, Null)]

FormEffect(variant, op, id) ==
    /\ last.op = "init" \/ last.arg = variant
    /\ last' = Last(op, id, TRUE, variant)
    /\ UNCHANGED <<editingExitId, pending, lastPrediction, tabs, view>>

\* the user fills the entry form, variant D
D_fillEntry ==
    /\ form' \in EntryForms
    /\ FormEffect("D", "fill", 0)
    /\ UNCHANGED <<records, stored, editingEntryId, now, nextId>>

\* editEntry with the fields it loads
D_editEntryFields ==
    /\ \E i \in DOMAIN records :
         /\ editingEntryId' = records[i].id
         /\ form' = D_editEntryForm(records[i])
         /\ FormEffect("D", "editEntry", records[i].id)
    /\ UNCHANGED <<records, stored, now, nextId>>

\* btnClearEntry with the fields it resets
D_clearEntryFields ==
    /\ editingEntryId' = 0
    /\ form' = D_clearEntryForm
    /\ FormEffect("D", "entryClear", 0)
    /\ UNCHANGED <<records, stored, now, nextId>>

\* btnJudgeAndSave on the fields as they are
D_judgeAndSaveFields ==
    /\ editingEntryId = 0 => (Len(records) < MaxRecords /\ nextId <= MaxIds)
    /\ \E t \in 1..MaxClock :
         /\ Stamp(t)
         /\ records' = IF editingEntryId # 0
                       THEN D_updateExistingEntry(records, editingEntryId,
                                                  form, t)
                       ELSE D_saveNewTrade(records, nextId, form, t)
    /\ stored' = IF editingEntryId # 0 /\ IndexOf(records, editingEntryId) = 0
                 THEN stored
                 ELSE Stringify(records')
    /\ nextId' = IF editingEntryId = 0 THEN nextId + 1 ELSE nextId
    /\ editingEntryId' = 0
    /\ form' = D_clearEntryForm
    /\ last.op = "init" \/ last.arg = "D"
    /\ last' = [Last("judgeSave",
                     IF editingEntryId # 0 THEN editingEntryId ELSE nextId,
                     TRUE, "D")
                  EXCEPT !.edit = editingEntryId # 0]
    /\ UNCHANGED <<editingExitId, pending, lastPrediction, tabs, view>>

\* the user fills the entry form, variant E
E_fillEntry ==
    /\ form' \in EntryForms
    /\ FormEffect("E", "fill", 0)
    /\ UNCHANGED <<records, stored, editingEntryId, now, nextId>>

\* populateEntryForm with the fields it loads
E_populateEntryFormLoad ==
    /\ \E i \in DOMAIN records :
         /\ editingEntryId' = records[i].id
         /\ form' = E_populateEntryFormFields(records[i])
         /\ FormEffect("E", "editEntry", records[i].id)
    /\ UNCHANGED <<records, stored, now, nextId>>

\* btn-entry-clear with the fields it resets
E_entryClearFields ==
    /\ editingEntryId' = 0
    /\ form' = E_clearEntryForm
    /\ FormEffect("E", "entryClear", 0)
    /\ UNCHANGED <<records, stored, now, nextId>>

\* btn-judge-save on the fields as they are
E_judgeSaveFields ==
    /\ editingEntryId = 0 => (Len(records) < MaxRecords /\ nextId <= MaxIds)
    /\ \E t \in 1..MaxClock :
         /\ Stamp(t)
         /\ records' = E_saveEntry(records, editingEntryId, nextId, form, t)
    /\ stored' = Stringify(records')
    /\ nextId' = IF editingEntryId = 0 THEN nextId + 1 ELSE nextId
    /\ editingEntryId' = 0
    /\ form' = E_clearEntryForm
    /\ last.op = "init" \/ last.arg = "E"
    /\ last' = [Last("judgeSave",
                     IF editingEntryId # 0 THEN editingEntryId ELSE nextId,
                     TRUE, "E")
                  EXCEPT !.edit = editingEntryId # 0]
    /\ UNCHANGED <<editingExitId, pending, lastPrediction, tabs, view>>

\* The entry form of variant B: its fields, image being the src of
\* entry-image-preview, and whether entry-image holds a file.
B_form(fields, file, preview) ==
    [symbol |-> fields.symbol, directionPlanned |-> fields.directionPlanned,
     entryPrice |-> fields.entryPrice, size |-> fields.size,
     feePerUnit |-> fields.feePerUnit, ind |-> fields.ind,
     minWinRate |-> Empty, marketMemo |-> fields.marketMemo,
     image |-> preview, file |-> file]

\* the user fills the entry form, variant B; the change handler of
\* entry-image shows the chosen file, or empties the preview
B_fillEntry ==
    /\ \E f \in EntryForms :
         form' = B_form(f, f.image # Null,
                        IF f.image # Null THEN f.image ELSE Str(""))
    /\ FormEffect("B", "fill", 0)
    /\ UNCHANGED <<records, stored, editingEntryId, now, nextId>>

\* an edit button of the analysis table, with the fields it loads: the
\* preview shows the trade's image, entry-image is not touched
B_editFields ==
    /\ last.arg = "B"
    /\ \E i \in DOMAIN stored :
         /\ editingEntryId' = stored[i].id
         /\ form' = B_form(D_editEntryForm(stored[i]), form.file,
                           IF Truthy(stored[i].imageData)
                           THEN stored[i].imageData
                           ELSE form.image)
         /\ FormEffect("B", "editEntry", stored[i].id)
    /\ UNCHANGED <<records, stored, now, nextId>>

\* predict-save-btn on the fields as they are: the preview is stored when
\* entry-image holds a file; entryForm.reset() afterwards
B_predictSaveFields ==
    /\ last.arg = "B"
    /\ B_validateEntry(form)
    /\ editingEntryId = 0 => (Len(stored) < MaxRecords /\ nextId <= MaxIds)
    /\ \E t \in 1..MaxClock :
         /\ Stamp(t)
         /\ stored' = Stringify(B_predictSave(stored, editingEntryId, nextId,
                         [form EXCEPT
                            !.image = IF form.file THEN form.image
                                      ELSE Null], t))
    /\ records' = stored'
    /\ nextId' = IF editingEntryId = 0 THEN nextId + 1 ELSE nextId
    /\ editingEntryId' = 0
    /\ form' = B_form(E_clearEntryForm, FALSE, form.image)
    /\ last' = [Last("judgeSave",
                     IF editingEntryId # 0 THEN editingEntryId ELSE nextId,
                     TRUE, "B")
                  EXCEPT !.edit = editingEntryId # 0]
    /\ UNCHANGED <<editingExitId, pending, lastPrediction, tabs, view>>

NextForm ==
    \/ B_fillEntry
    \/ B_editFields
    \/ B_predictSaveFields
    \/ D_fillEntry
    \/ D_editEntryFields
    \/ D_clearEntryFields
    \/ D_judgeAndSaveFields
    \/ E_fillEntry
    \/ E_populateEntryFormLoad
    \/ E_entryClearFields
    \/ E_judgeSaveFields

\* One closed long trade on the profile of the cleared form, won or lost,
\* saved with or without a minimum win rate and an image.
FormHistories ==
    {<<[EngineClosed(1, P0) EXCEPT !.profit = Num(p), !.minWinRate = m,
                                   !.imageData = img]>> :
        p \in {20, 0 - 20}, m \in {Null, Num(50)}, img \in {Null, Str("img")}}

InitForm ==
    /\ records \in FormHistories
    /\ stored = Stringify(records)
    /\ editingEntryId = 0
    /\ editingExitId = 0
    /\ pending = <<>>
    /\ lastPrediction = Null
    /\ now = 0
    /\ nextId = 2
    /\ last = Last("init", 0, TRUE, "")
    /\ tabs = InitialTabs
    /\ view = Null
    /\ form \in EntryForms

----------------------------------------------------------------------------
(* judgeTrade of variants D and E as a function of the entry, with its    *)
(* minWinRate, and of the closed cases.                                    *)

MaxCases == 2

\* A closed trade on the first profile, taken in direction dir, with the
\* given profit.
Case(id, dir, profit) ==
    [EngineClosed(id, P0) EXCEPT !.directionPlanned = dir,
                                 !.directionTaken = Str(dir),
                                 !.profit = Num(profit)]

Cases(id) ==
    {Case(id, dir, profit) : dir \in {"long", "short", "flat"},
                             profit \in {20, 0 - 20}}

\* Histories of up to MaxCases closed trades.
CaseHistories ==
    UNION {[1..n -> UNION {Cases(i) : i \in 1..n}] : n \in 0..MaxCases}

GatedEntries ==
    {[EngineEntry(p) EXCEPT !.minWinRate = m] :
        p \in {P0, P1}, m \in {Null, Num(0), Num(50), Num(100)}}

JudgeResult(variant, entry, recommendation) ==
    [variant |-> variant, entry |-> entry, recommendation |-> recommendation]

D_judgeGated ==
    /\ \E entry \in GatedEntries :
         lastPrediction' = JudgeResult("D", entry, D_judgeTrade(entry, records))
    /\ last' = Last("judge", 0, TRUE, "D")
    /\ UNCHANGED <<records, stored, editingEntryId, editingExitId, pending,
                   now, nextId>>
    /\ UNCHANGED <<tabs, view, form>>

E_judgeGated ==
    /\ \E entry \in GatedEntries :
         lastPrediction' = JudgeResult("E", entry, E_judgeTrade(entry, records))
    /\ last' = Last("judge", 0, TRUE, "E")
    /\ UNCHANGED <<records, stored, editingEntryId, editingExitId, pending,
                   now, nextId>>
    /\ UNCHANGED <<tabs, view, form>>

NextJudge ==
    \/ D_judgeGated
    \/ E_judgeGated

InitJudge ==
    /\ records \in {h \in CaseHistories : \A i \in DOMAIN h : h[i].id = i}
    /\ stored = records
    /\ editingEntryId = 0
    /\ editingExitId = 0
    /\ pending = <<>>
    /\ lastPrediction = Null
    /\ now = 0
    /\ nextId = 1
    /\ last = Last("init", 0, TRUE, "")
    /\ tabs = InitialTabs
    /\ view = Null
    /\ form = Null

----------------------------------------------------------------------------
(* The expected move the engines of variants B, C and D return.           *)

\* Math.round(num / den) for den > 0
Round(num, den) == (2 * num + den) \div (2 * den)

\* computePrediction: expectedMove, rounded to the nearest 10.
B_expectedMove(entry, recs) ==
    LET matched == B_matched(entry, recs, B_usedLevel(entry, recs, 1))
        dir == B_computePrediction(entry, recs)
        moves == {i \in matched : /\ recs[i].directionTaken = Str(dir)
                                  /\ IsNum(B_move(dir, recs[i]))}
        n == Cardinality(moves)
    IN  IF dir = "flat" \/ n = 0 THEN Num(0)
        ELSE Num(Round(B_moveSum(dir, recs, moves), 10 * n) * 10)

\* predictTrade: expectedMove, rounded to the nearest 10 from 20 on and to
\* the nearest integer below.
C_expectedMove(ind, recs) ==
    LET similar == C_similar(ind, recs, C_levelUsed(ind, recs, 1))
        dir == C_predictTrade(ind, recs)
        group == {i \in similar : recs[i].directionTaken = Str(dir)}
        n == Cardinality(group)
        sum == C_moveSum(recs, group)
        abs == IF sum < 0 THEN 0 - sum ELSE sum
    IN  IF dir = "flat" THEN Num(0)
        ELSE IF abs >= 20 * n THEN Num(Round(sum, 10 * n) * 10)
        ELSE Num(Round(sum, n))

\* The move of one similar case of judgeTrade, floored at zero; null when
\* the case has no entry price or no extreme in its direction.
D_move(dir, rec) ==
    IF rec.entryPrice = Null THEN Null
    ELSE IF dir = "long" /\ rec.highDuringTrade # Null
         THEN Num(IF rec.highDuringTrade.v - rec.entryPrice.v < 0 THEN 0
                  ELSE rec.highDuringTrade.v - rec.entryPrice.v)
    ELSE IF dir = "short" /\ rec.lowDuringTrade # Null
         THEN Num(IF rec.entryPrice.v - rec.lowDuringTrade.v < 0 THEN 0
                  ELSE rec.entryPrice.v - rec.lowDuringTrade.v)
    ELSE Null

RECURSIVE D_moveSum(_, _, _)
D_moveSum(dir, recs, S) ==
    IF S = {} THEN 0
    ELSE LET i == CHOOSE j \in S : TRUE
         IN  D_move(dir, recs[i]).v + D_moveSum(dir, recs, S \ {i})

\* judgeTrade of variant D: expectedMove in tenths (it is rounded to one
\* decimal), null when the recommendation is flat.
D_expectedMove(entry, recs) ==
    LET similar == {i \in DOMAIN recs :
                      /\ recs[i].symbol = entry.symbol
                      /\ recs[i].hasResult
                      /\ D_matches(entry, recs[i]) * 2 >= NumFeatures}
        dir == D_judgeTrade(entry, recs)
        moves == {i \in similar : /\ recs[i].directionTaken = Str(dir)
                                  /\ D_move(dir, recs[i]) # Null}
        n == Cardinality(moves)
    IN  IF dir = "flat" THEN Null
        ELSE IF n = 0 THEN Num(0)
        ELSE Num(Round(10 * D_moveSum(dir, recs, moves), n))

\* Closed trades on the first profile: a long that won and went above its
\* entry, a long that lost and has no high, a short that won and went
\* below its entry, a short that lost and has no low.
MoveCase(id, kind) ==
    CASE kind = "longWon" -> EngineClosed(id, P0)
      [] kind = "longLost" ->
           [EngineClosed(id, P0) EXCEPT !.exitPrice = Num(60),
              !.highDuringTrade = Null, !.lowDuringTrade = Null,
              !.profit = Num(0 - 40)]
      [] kind = "shortWon" ->
           [EngineClosed(id, P0) EXCEPT !.directionPlanned = "short",
              !.directionTaken = Str("short"), !.exitPrice = Num(80),
              !.highDuringTrade = Null, !.lowDuringTrade = Num(70)]
      [] OTHER ->
           [EngineClosed(id, P0) EXCEPT !.directionPlanned = "short",
              !.directionTaken = Str("short"), !.exitPrice = Num(140),
              !.highDuringTrade = Null, !.lowDuringTrade = Null,
              !.profit = Num(0 - 40)]

MoveHistories ==
    {[i \in 1..PoolSize |-> MoveCase(i, kinds[i])] :
        kinds \in [1..PoolSize ->
                     {"longWon", "longLost", "shortWon", "shortLost"}]}

MoveResult(variant, recommendation, expectedMove) ==
    [variant |-> variant, recommendation |-> recommendation,
     expectedMove |-> expectedMove]

B_predictMove ==
    /\ \E p \in {P0, P1} :
         lastPrediction' =
            MoveResult("B", B_computePrediction(EngineEntry(p), records),
                       B_expectedMove(EngineEntry(p), records))
    /\ last' = Last("judge", 0, TRUE, "B")
    /\ UNCHANGED <<records, stored, editingEntryId, editingExitId, pending,
                   now, nextId>>
    /\ UNCHANGED <<tabs, view, form>>

C_predictMove ==
    /\ \E p \in {P0, P1} :
         lastPrediction' =
            MoveResult("C", C_predictTrade(p, records),
                       C_expectedMove(p, records))
    /\ last' = Last("judge", 0, TRUE, "C")
    /\ UNCHANGED <<records, stored, editingEntryId, editingExitId, pending,
                   now, nextId>>
    /\ UNCHANGED <<tabs, view, form>>

D_judgeMove ==
    /\ \E p \in {P0, P1} :
         lastPrediction' =
            MoveResult("D", D_judgeTrade(EngineEntry(p), records),
                       D_expectedMove(EngineEntry(p), records))
    /\ last' = Last("judge", 0, TRUE, "D")
    /\ UNCHANGED <<records, stored, editingEntryId, editingExitId, pending,
                   now, nextId>>
    /\ UNCHANGED <<tabs, view, form>>

NextMove ==
    \/ B_predictMove
    \/ C_predictMove
    \/ D_judgeMove

InitMove ==
    /\ records \in MoveHistories
    /\ stored = records
    /\ editingEntryId = 0
    /\ editingExitId = 0
    /\ pending = <<>>
    /\ lastPrediction = Null
    /\ now = 0
    /\ nextId = 1
    /\ last = Last("init", 0, TRUE, "")
    /\ tabs = InitialTabs
    /\ view = Null
    /\ form = Null

----------------------------------------------------------------------------
(* judgeTrade of variant D over records of several instruments.           *)

\* judgeTrade: pseudoCaseCount, the number of similar cases.
D_pseudoCaseCount(entry, recs) ==
    Cardinality({i \in DOMAIN recs :
                   /\ recs[i].symbol = entry.symbol
                   /\ recs[i].hasResult
                   /\ D_matches(entry, recs[i]) * 2 >= NumFeatures})

\* A profile that agrees with the first profile on five readings.
PFive == [P1 EXCEPT ![6] = "negative"]

\* Trades on the first profile, of two instruments, closed or still open.
ScopedCases(id) ==
    {[Case(id, dir, profit) EXCEPT !.symbol = sym, !.hasResult = closed] :
        dir \in {"long", "short"}, profit \in {20, 0 - 20},
        sym \in {"nk225mc", "fx"}, closed \in BOOLEAN}

ScopedHistories ==
    UNION {[1..n -> UNION {ScopedCases(i) : i \in 1..n}] : n \in 0..MaxCases}

Judgement(entry, recommendation, confidence, expectedMove, pseudoCaseCount) ==
    [entry |-> entry, recommendation |-> recommendation,
     confidence |-> confidence, expectedMove |-> expectedMove,
     pseudoCaseCount |-> pseudoCaseCount]

D_judgeScoped ==
    /\ \E p \in {P0, P1, PFive} :
         lastPrediction' =
            Judgement(EngineEntry(p), D_judgeTrade(EngineEntry(p), records),
                      D_confidence(EngineEntry(p), records),
                      D_expectedMove(EngineEntry(p), records),
                      D_pseudoCaseCount(EngineEntry(p), records))
    /\ last' = Last("judge", 0, TRUE, "D")
    /\ UNCHANGED <<records, stored, editingEntryId, editingExitId, pending,
                   now, nextId>>
    /\ UNCHANGED <<tabs, view, form>>

NextScoped == D_judgeScoped

InitScoped ==
    /\ records \in {h \in ScopedHistories : \A i \in DOMAIN h : h[i].id = i}
    /\ stored = records
    /\ editingEntryId = 0
    /\ editingExitId = 0
    /\ pending = <<>>
    /\ lastPrediction = Null
    /\ now = 0
    /\ nextId = 1
    /\ last = Last("init", 0, TRUE, "")
    /\ tabs = InitialTabs
    /\ view = Null
    /\ form = Null

----------------------------------------------------------------------------
(* The live profit preview of the result forms of variants B and E, and   *)
(* the save of the form the preview was computed for.                      *)

\* calculateProfit: the number shown in the result form.
B_calculateProfit(trade, f) ==
    LET entryPrice == ToNumber(trade.entryPrice)
    IN  IF \/ ~Truthy(ParseFloat(f.exitPrice))
           \/ ~Truthy(ParseFloat(f.size))
           \/ ~Truthy(ParseFloat(f.feePerUnit))
        THEN Num(0)
        ELSE IF IsNum(entryPrice)
        THEN Num(baseProfit(f.directionTaken, entryPrice.v,
                            f.exitPrice.v, f.feePerUnit.v, f.size.v))
        ELSE IF f.directionTaken \in {"long", "short"} THEN NaN
        ELSE Num(0)

\* updateExitProfitDisplay: the number shown in the exit form, Empty when
\* the display is blanked.
E_updateExitProfitDisplay(rec, f) ==
    IF \/ ~Truthy(ParseFloat(f.exitPrice)) \/ ~Truthy(rec.entryPrice)
       \/ ~Truthy(rec.size) \/ ~Truthy(rec.feePerUnit)
    THEN Empty
    ELSE Num(baseProfit(DirOf(rec.directionTaken), rec.entryPrice.v,
                        f.exitPrice.v, rec.feePerUnit.v, rec.size.v)
             * getMultiplier(rec.symbol))

\* The result forms the user can leave in the page.
PreviewForms ==
    {[ExitFull EXCEPT !.exitPrice = x, !.feePerUnit = fee,
                      !.directionTaken = d, !.size = sz] :
        x \in {Num(120), Empty}, fee \in {Num(0), Num(5)},
        d \in {"long", "short"}, sz \in {Num(1), Num(2)}}

Preview(variant, f, shown) == [variant |-> variant, form |-> f, shown |-> shown]

\* an input event on the result form, variant B
B_resultInput ==
    /\ IF view = Null THEN TRUE ELSE view.variant = "B"
    /\ IndexOf(stored, editingExitId) # 0
    /\ \E f \in PreviewForms :
         view' = Preview("B", f,
                         B_calculateProfit(
                            stored[IndexOf(stored, editingExitId)], f))
    /\ last' = Last("resultInput", editingExitId, TRUE, "B")
    /\ UNCHANGED <<records, stored, editingEntryId, editingExitId, pending,
                   lastPrediction, now, nextId, tabs, form>>

\* result-save-btn on the form the preview shows, variant B
B_resultSaveShown ==
    /\ IF view = Null THEN FALSE ELSE view.variant = "B"
    /\ IndexOf(stored, editingExitId) # 0
    /\ B_resultValid(view.form)
    /\ \E t \in 1..MaxClock :
         LET idx == IndexOf(stored, editingExitId)
         IN  /\ Stamp(t)
             /\ stored' = Stringify([stored EXCEPT ![idx] =
                                        B_resultSave(stored[idx], view.form, t)])
    /\ records' = stored'
    /\ view' = [view EXCEPT !.shown =
                   stored'[IndexOf(stored, editingExitId)].profit]
    /\ last' = Last("saveResult", editingExitId, TRUE, "B")
    /\ UNCHANGED <<editingEntryId, editingExitId, pending, lastPrediction,
                   nextId, tabs, form>>

\* an input event on the exit price, variant E
E_exitInput ==
    /\ IF view = Null THEN TRUE ELSE view.variant = "E"
    /\ IndexOf(records, editingExitId) # 0
    /\ \E f \in PreviewForms :
         view' = Preview("E", f,
                         E_updateExitProfitDisplay(
                            records[IndexOf(records, editingExitId)], f))
    /\ last' = Last("resultInput", editingExitId, TRUE, "E")
    /\ UNCHANGED <<records, stored, editingEntryId, editingExitId, pending,
                   lastPrediction, now, nextId, tabs, form>>

\* btn-save-result on the form the preview shows, variant E
E_saveResultShown ==
    /\ IF view = Null THEN FALSE ELSE view.variant = "E"
    /\ IndexOf(records, editingExitId) # 0
    /\ \E t \in 1..MaxClock :
         LET idx == IndexOf(records, editingExitId)
         IN  /\ Stamp(t)
             /\ records' = [records EXCEPT ![idx] =
                               E_updateResult(records[idx], view.form, t)]
    /\ stored' = Stringify(records')
    /\ view' = [view EXCEPT !.shown =
                   IF records'[IndexOf(records, editingExitId)].profit = Null
                   THEN Empty
                   ELSE records'[IndexOf(records, editingExitId)].profit]
    /\ last' = Last("saveResult", editingExitId, TRUE, "E")
    /\ UNCHANGED <<editingEntryId, editingExitId, pending, lastPrediction,
                   nextId, tabs, form>>

NextPreview ==
    \/ B_resultInput
    \/ B_resultSaveShown
    \/ E_exitInput
    \/ E_saveResultShown

\* One open entry, selected in the result form.
InitPreview ==
    /\ records \in {<<[EngineOpen(1, P0) EXCEPT !.directionTaken = Str(d),
                                                !.feePerUnit = Num(fee)]>> :
                       d \in {"long", "short"}, fee \in {0, 5}}
    /\ stored = records
    /\ editingEntryId = 0
    /\ editingExitId = 1
    /\ pending = <<>>
    /\ lastPrediction = Null
    /\ now = 0
    /\ nextId = 2
    /\ last = Last("init", 0, TRUE, "")
    /\ tabs = InitialTabs
    /\ view = Null
    /\ form = Null

----------------------------------------------------------------------------
(* The cumulative-profit series of the charts of variants B, D and E.     *)

\* The orders of the indices of seq in which key never decreases; a
\* comparator that is consistent gives the one that keeps equal elements
\* in their order, one that never answers "equal" may give any of them.
Orders(seq, key(_)) ==
    {p \in [DOMAIN seq -> DOMAIN seq] :
        /\ \A i, j \in DOMAIN seq : i # j => p[i] # p[j]
        /\ \A i, j \in DOMAIN seq : i < j => key(seq[p[i]]) <= key(seq[p[j]])}

StableOrder(seq, key(_)) ==
    CHOOSE p \in Orders(seq, key) :
        \A i, j \in DOMAIN seq :
            (i < j /\ key(seq[p[i]]) = key(seq[p[j]])) => p[i] < p[j]

\* sum += profit over the first k elements, a profit that is no number
\* adding nothing
RECURSIVE RunningSum(_, _)
RunningSum(seq, k) ==
    IF k = 0 THEN 0
    ELSE RunningSum(seq, k - 1)
           + (IF IsNum(seq[k].profit) THEN seq[k].profit.v ELSE 0)

Cumulative(seq) == [k \in DOMAIN seq |-> RunningSum(seq, k)]

\* updateCharts: the cumulative series, over the closed trades of the
\* filtered data sorted by entry date.
B_cumulative(data) ==
    LET closed == SelectSeq(data, LAMBDA t : t.hasResult)
        key(t) == GetTime(t.datetimeEntry)
        p == StableOrder(closed, key)
    IN  Cumulative([k \in DOMAIN closed |-> closed[p[k]]])

\* renderProfitChart: the cumulative series, over the closed records in
\* the order of the collection.
D_cumulative(recs) == Cumulative(SelectSeq(recs, LAMBDA r : r.hasResult))

\* drawCharts: the cumulative series under the order p of the records that
\* have a datetimeEntry.
E_cumulative(recs, p) ==
    LET dated == SelectSeq(recs, LAMBDA r : r.datetimeEntry # Null)
    IN  Cumulative([k \in DOMAIN dated |-> dated[p[k]]])

E_sortOrders(recs) ==
    LET dated == SelectSeq(recs, LAMBDA r : r.datetimeEntry # Null)
        key(r) == r.datetimeEntry.v
    IN  Orders(dated, key)

\* Rows of one instrument: closed with a gain or a loss, or still open,
\* entered at one of two instants or without an entry datetime.
ChartRows(id) ==
    {[FilterRow(id, "nk225", dt, id) EXCEPT !.hasResult = o[1],
                                            !.profit = o[2]] :
        dt \in {Null, Num(1), Num(2)},
        o \in {<<TRUE, Num(10)>>, <<TRUE, Num(0 - 5)>>, <<FALSE, Null>>}}

Series(variant, series) == [variant |-> variant, series |-> series]

B_chart ==
    /\ view' = Series("B", B_cumulative(B_updateCharts(Filter("", 0, 0),
                                                       records)))
    /\ last' = Last("chart", 0, TRUE, "B")
    /\ UNCHANGED <<records, stored, editingEntryId, editingExitId, pending,
                   lastPrediction, now, nextId, tabs, form>>

D_chart ==
    /\ view' = Series("D", D_cumulative(records))
    /\ last' = Last("chart", 0, TRUE, "D")
    /\ UNCHANGED <<records, stored, editingEntryId, editingExitId, pending,
                   lastPrediction, now, nextId, tabs, form>>

E_chart ==
    /\ \E p \in E_sortOrders(E_updateStats(Filter("", 0, 0), records)) :
         view' = Series("E", E_cumulative(E_updateStats(Filter("", 0, 0),
                                                        records), p))
    /\ last' = Last("chart", 0, TRUE, "E")
    /\ UNCHANGED <<records, stored, editingEntryId, editingExitId, pending,
                   lastPrediction, now, nextId, tabs, form>>

NextChart ==
    \/ B_chart
    \/ D_chart
    \/ E_chart

InitChart ==
    /\ records \in {h \in [1..MaxRecords -> UNION {ChartRows(i) : i \in 1..MaxRecords}] :
                       \A i \in DOMAIN h : h[i].id = i}
    /\ stored = records
    /\ editingEntryId = 0
    /\ editingExitId = 0
    /\ pending = <<>>
    /\ lastPrediction = Null
    /\ now = 0
    /\ nextId = 1
    /\ last = Last("init", 0, TRUE, "")
    /\ tabs = InitialTabs
    /\ view = Null
    /\ form = Null

----------------------------------------------------------------------------
(* The image input of the entry form of variants C and D.  form holds    *)
(* currentImageData and latest, the image of the latest selection (null    *)
(* after the input was cleared or the form reset); pending holds the files *)
(* whose read has started and not completed.                               *)

MaxReads == 2

ImageFiles == {"F1", "F2"}

ImageForm(variant, currentImageData, latest) ==
    [variant |-> variant, currentImageData |-> currentImageData,
     latest |-> latest]

\* change of image-input: a read of the chosen file starts, or, with no
\* file, the image is dropped at once.
C_imageChange ==
    /\ form.variant = "C"
    /\ \E file \in ImageFiles \cup {""} :
         IF file # ""
         THEN /\ Len(pending) < MaxReads
              /\ pending' = Append(pending, file)
              /\ form' = [form EXCEPT !.latest = Str(file)]
         ELSE /\ form' = [form EXCEPT !.currentImageData = Null,
                                      !.latest = Null]
              /\ UNCHANGED pending
    /\ last' = Last("imageChange", 0, TRUE, "C")
    /\ UNCHANGED <<records, stored, editingEntryId, editingExitId,
                   lastPrediction, now, nextId, tabs, view>>

\* reader.onload of any read in flight
C_imageLoaded ==
    /\ form.variant = "C"
    /\ \E i \in DOMAIN pending :
         /\ form' = [form EXCEPT !.currentImageData = Str(pending[i])]
         /\ pending' = RemoveAt(pending, i)
    /\ last' = Last("imageLoaded", 0, TRUE, "C")
    /\ UNCHANGED <<records, stored, editingEntryId, editingExitId,
                   lastPrediction, now, nextId, tabs, view>>

\* predict-save with the image the form holds, then the reset of the image
C_predictSaveImage ==
    /\ form.variant = "C"
    /\ Len(records) < MaxRecords
    /\ nextId <= MaxIds
    /\ records' = Append(records,
           C_buildRecord([FormLong EXCEPT !.image = form.currentImageData],
                         ExitBlank, nextId,
                         C_predictTrade(FormLong.ind, records)))
    /\ stored' = Stringify(records')
    /\ nextId' = nextId + 1
    /\ form' = [form EXCEPT !.currentImageData = Null, !.latest = Null]
    /\ last' = Last("judgeSave", nextId, TRUE, "C")
    /\ UNCHANGED <<editingEntryId, editingExitId, pending, lastPrediction,
                   now, tabs, view>>

\* change of imageData: as in variant C, the read being awaited
D_imageChange ==
    /\ form.variant = "D"
    /\ \E file \in ImageFiles \cup {""} :
         IF file # ""
         THEN /\ Len(pending) < MaxReads
              /\ pending' = Append(pending, file)
              /\ form' = [form EXCEPT !.latest = Str(file)]
         ELSE /\ form' = [form EXCEPT !.currentImageData = Null,
                                      !.latest = Null]
              /\ UNCHANGED pending
    /\ last' = Last("imageChange", 0, TRUE, "D")
    /\ UNCHANGED <<records, stored, editingEntryId, editingExitId,
                   lastPrediction, now, nextId, tabs, view>>

\* the continuation of the handler after await readImageFile(file)
D_imageRead ==
    /\ form.variant = "D"
    /\ \E i \in DOMAIN pending :
         /\ form' = [form EXCEPT !.currentImageData = Str(pending[i])]
         /\ pending' = RemoveAt(pending, i)
    /\ last' = Last("imageLoaded", 0, TRUE, "D")
    /\ UNCHANGED <<records, stored, editingEntryId, editingExitId,
                   lastPrediction, now, nextId, tabs, view>>

\* btnJudgeAndSave of a new entry with the image the form holds, then
\* clearEntryForm
D_judgeAndSaveImage ==
    /\ form.variant = "D"
    /\ Len(records) < MaxRecords
    /\ nextId <= MaxIds
    /\ \E t \in 1..MaxClock :
         /\ Stamp(t)
         /\ records' = D_saveNewTrade(records, nextId,
                [FormLong EXCEPT !.image = form.currentImageData], t)
    /\ stored' = Stringify(records')
    /\ nextId' = nextId + 1
    /\ form' = [form EXCEPT !.currentImageData = Null, !.latest = Null]
    /\ last' = Last("judgeSave", nextId, TRUE, "D")
    /\ UNCHANGED <<editingEntryId, editingExitId, pending, lastPrediction,
                   tabs, view>>

NextImage ==
    \/ C_imageChange
    \/ C_imageLoaded
    \/ C_predictSaveImage
    \/ D_imageChange
    \/ D_imageRead
    \/ D_judgeAndSaveImage

InitImage ==
    /\ records = <<>>
    /\ stored = <<>>
    /\ editingEntryId = 0
    /\ editingExitId = 0
    /\ pending = <<>>
    /\ lastPrediction = Null
    /\ now = 0
    /\ nextId = 1
    /\ last = Last("init", 0, TRUE, "")
    /\ tabs = InitialTabs
    /\ view = Null
    /\ form \in {ImageForm(v, Null, Null) : v \in {"C", "D"}}

----------------------------------------------------------------------------
(* The click-toggle voice dictation of variant D.  form holds whether the *)
(* browser has a speech recognition, isRecording, the label of the record  *)
(* button, and the recognition sessions created so far, the last one being *)
(* the one the variable recognition refers to.                             *)

MaxSessions == 4

Dictation(supported, isRecording, label, sessions) ==
    [supported |-> supported, isRecording |-> isRecording, label |-> label,
     sessions |-> sessions]

\* startRecording: refused with an alert when the browser has no speech
\* recognition, else a new session is started.
D_startRecording(d) ==
    IF ~d.supported THEN d
    ELSE [d EXCEPT !.sessions = Append(d.sessions, "active"),
                   !.isRecording = TRUE]

\* stopRecording: recognition.stop() asks the session to end, which it
\* reports later through onend; stopping a session that has ended does
\* nothing.
D_stopRecording(d) ==
    LET n == Len(d.sessions)
    IN  [d EXCEPT !.sessions =
                     IF n > 0 /\ d.sessions[n] = "active"
                     THEN [d.sessions EXCEPT ![n] = "stopping"]
                     ELSE d.sessions,
                  !.isRecording = FALSE]

\* click on recordAudio
D_recordClick ==
    /\ (form.supported /\ ~form.isRecording) =>
           Len(form.sessions) < MaxSessions
    /\ form' = IF ~form.isRecording
               THEN [D_startRecording(form) EXCEPT !.label = "stop"]
               ELSE [D_stopRecording(form) EXCEPT !.label = "start"]
    /\ last' = Last("recordClick", 0, TRUE, "")
    /\ UNCHANGED <<records, stored, editingEntryId, editingExitId, pending,
                   lastPrediction, now, nextId, tabs, view>>

\* recognition.onerror of a running session: the error is logged; the
\* session ends afterwards.
D_recognitionError ==
    /\ \E i \in DOMAIN form.sessions :
         /\ form.sessions[i] = "active"
         /\ form' = [form EXCEPT !.sessions[i] = "failed"]
    /\ last' = Last("recognitionError", 0, TRUE, "")
    /\ UNCHANGED <<records, stored, editingEntryId, editingExitId, pending,
                   lastPrediction, now, nextId, tabs, view>>

\* recognition.onend of a session: by itself, after stop() or after an
\* error
D_recognitionEnd ==
    /\ \E i \in DOMAIN form.sessions :
         /\ form.sessions[i] # "ended"
         /\ form' = [form EXCEPT !.sessions[i] = "ended",
                                 !.isRecording = FALSE,
                                 !.label = "start"]
    /\ last' = Last("recognitionEnd", 0, TRUE, "")
    /\ UNCHANGED <<records, stored, editingEntryId, editingExitId, pending,
                   lastPrediction, now, nextId, tabs, view>>

NextVoice ==
    \/ D_recordClick
    \/ D_recognitionError
    \/ D_recognitionEnd

InitVoice ==
    /\ records = <<>>
    /\ stored = <<>>
    /\ editingEntryId = 0
    /\ editingExitId = 0
    /\ pending = <<>>
    /\ lastPrediction = Null
    /\ now = 0
    /\ nextId = 1
    /\ last = Last("init", 0, TRUE, "")
    /\ tabs = InitialTabs
    /\ view = Null
    /\ form \in {Dictation(b, FALSE, "start", <<>>) : b \in BOOLEAN}

----------------------------------------------------------------------------
(* Export and import of the same store, variants E, A and D.  view holds  *)
(* the file exported last, form the variant the page runs.                 *)

\* exportRecords, and the export-json button of variant A: the collection
\* in the envelope of version 1, written by JSON.stringify.
E_exportRecords(recs) == File("object", Num(1), "array", Stringify(recs))

\* exportJSON: the bare array.
D_exportJSON(recs) == File("array", Null, "absent", Stringify(recs))

\* The files offered to the import beside the exported one.
ExchangeFiles ==
    {File(k[1], k[2], k[3], it) :
        k \in {<<"object", Num(1), "array">>, <<"array", Null, "absent">>},
        it \in {<<ImportedClosed(ForeignId, 1)>>,
                <<ImportedClosed(ForeignId, 2)>>,
                <<ImportedClosed(ForeignId, 2), ImportedClosed(ForeignId, 1)>>,
                <<ImportedClosed(1, 1), ImportedClosed(ForeignId, 1)>>,
                <<NullElement>>,
                <<ImportedClosed(ForeignId, 1), NullElement>>}}

E_export ==
    /\ form.variant = "E"
    /\ view' = E_exportRecords(records)
    /\ last' = Last("export", 0, TRUE, "")
    /\ UNCHANGED <<records, stored>>
    /\ UNCHANGED <<editingEntryId, editingExitId, pending, lastPrediction,
                   now, nextId, tabs, form>>

\* the import of a file, or of the file exported last
E_importFile ==
    /\ form.variant = "E"
    /\ \E file \in ExchangeFiles \cup (IF view = Null THEN {} ELSE {view}) :
         LET m == E_merge(records, file.items, 0, 0)
         IN  IF ~ValidEnvelope(file)
             THEN /\ last' = [Last("import", 0, FALSE, FileClass(file)) EXCEPT
                                !.items = file.items]
                  /\ UNCHANGED <<records, stored>>
             ELSE /\ Len(m.recs) <= MaxRecords
                  /\ records' = m.recs
                  /\ stored' = IF m.threw THEN stored ELSE Stringify(m.recs)
                  /\ last' = [Last("import", 0, ~m.threw, FileClass(file))
                                EXCEPT !.added = m.added,
                                       !.updated = m.updated,
                                       !.items = file.items]
    /\ UNCHANGED view
    /\ UNCHANGED <<editingEntryId, editingExitId, pending, lastPrediction,
                   now, nextId, tabs, form>>

A_export ==
    /\ form.variant = "A"
    /\ view' = E_exportRecords(records)
    /\ last' = Last("export", 0, TRUE, "")
    /\ UNCHANGED <<records, stored>>
    /\ UNCHANGED <<editingEntryId, editingExitId, pending, lastPrediction,
                   now, nextId, tabs, form>>

\* the import of a file, or of the file exported last
A_importFile ==
    /\ form.variant = "A"
    /\ \E file \in ExchangeFiles \cup (IF view = Null THEN {} ELSE {view}) :
         LET m == A_merge(records, file.items, 0, 0, {})
         IN  IF ~ValidEnvelope(file)
             THEN /\ last' = [Last("import", 0, FALSE, FileClass(file)) EXCEPT
                                !.items = file.items]
                  /\ UNCHANGED <<records, stored>>
             ELSE /\ Len(m.recs) <= MaxRecords
                  /\ records' = m.recs
                  /\ stored' = IF m.threw THEN stored ELSE Stringify(m.recs)
                  /\ last' = [Last("import", 0, ~m.threw, FileClass(file))
                                EXCEPT !.added = m.added,
                                       !.updated = m.updated,
                                       !.items = file.items]
    /\ UNCHANGED view
    /\ UNCHANGED <<editingEntryId, editingExitId, pending, lastPrediction,
                   now, nextId, tabs, form>>

D_export ==
    /\ form.variant = "D"
    /\ view' = D_exportJSON(records)
    /\ last' = Last("export", 0, TRUE, "")
    /\ UNCHANGED <<records, stored>>
    /\ UNCHANGED <<editingEntryId, editingExitId, pending, lastPrediction,
                   now, nextId, tabs, form>>

\* the import of a file, or of the file exported last, the prompt being
\* confirmed
D_importFile ==
    /\ form.variant = "D"
    /\ \E file \in ExchangeFiles \cup (IF view = Null THEN {} ELSE {view}) :
         IF file.kind = "array"
         THEN /\ Len(file.items) <= MaxRecords
              /\ records' = file.items
              /\ stored' = Stringify(file.items)
              /\ last' = [Last("import", 0, TRUE, FileClass(file)) EXCEPT
                            !.items = file.items]
         ELSE /\ last' = [Last("import", 0, FALSE, FileClass(file)) EXCEPT
                            !.items = file.items]
              /\ UNCHANGED <<records, stored>>
    /\ UNCHANGED view
    /\ UNCHANGED <<editingEntryId, editingExitId, pending, lastPrediction,
                   now, nextId, tabs, form>>

NextExchange ==
    \/ E_export
    \/ E_importFile
    \/ A_export
    \/ A_importFile
    \/ D_export
    \/ D_importFile

InitExchange ==
    /\ records \in {<<>>, <<ImportedClosed(1, 1)>>}
    /\ stored = records
    /\ editingEntryId = 0
    /\ editingExitId = 0
    /\ pending = <<>>
    /\ lastPrediction = Null
    /\ now = 0
    /\ nextId = 2
    /\ last = Last("init", 0, TRUE, "")
    /\ tabs = InitialTabs
    /\ view = Null
    /\ form \in {[variant |-> v] : v \in {"E", "A", "D"}}

----------------------------------------------------------------------------
(* The state after construction: nothing stored, nothing selected.         *)

Init ==
    /\ records = <<>>
    /\ stored = <<>>
    /\ editingEntryId = 0
    /\ editingExitId = 0
    /\ pending = <<>>
    /\ lastPrediction = Null
    /\ now = 0
    /\ nextId = 1
    /\ last = Last("init", 0, TRUE, "")
    /\ tabs = InitialTabs
    /\ view = Null
    /\ form = Null

SpecE == Init /\ [][NextE]_vars

SpecD == Init /\ [][NextD]_vars

SpecB == Init /\ [][NextB]_vars

SpecC == Init /\ [][NextC]_vars

SpecA == Init /\ [][NextA]_vars

SpecLoad == InitLoad /\ [][NextLoad]_vars

SpecEngine == InitEngine /\ [][NextEngine]_vars

SpecTabs == InitTabs /\ [][NextTabs]_vars

SpecFilter == InitFilter /\ [][NextFilter]_vars

SpecForm == InitForm /\ [][NextForm]_vars

SpecJudge == InitJudge /\ [][NextJudge]_vars

SpecMove == InitMove /\ [][NextMove]_vars

SpecScoped == InitScoped /\ [][NextScoped]_vars

SpecPreview == InitPreview /\ [][NextPreview]_vars

SpecChart == InitChart /\ [][NextChart]_vars

SpecImage == InitImage /\ [][NextImage]_vars

SpecVoice == InitVoice /\ [][NextVoice]_vars

SpecExchange == InitExchange /\ [][NextExchange]_vars

----------------------------------------------------------------------------
(* The claims.                                                             *)

\* The record of the collection with the given id.
RecordOf(recs, id) == recs[IndexOf(recs, id)]

\* C1: whenever the result save completes and the record is closed, the
\* stored record has hasResult = true, a finite numeric profit, and a
\* non-null exit datetime and exit price; a save that lacks the exit
\* datetime or the exit price never closes the record.
C1_ResultSaveClosesOnlyCompleteRecords ==
    (last.op = "saveResult" /\ last.ok) =>
        \A i \in DOMAIN stored :
            (stored[i].id = last.id /\ stored[i].hasResult) =>
                /\ IsNum(stored[i].profit)
                /\ stored[i].datetimeExit \notin {Null, Empty}
                /\ IsNum(stored[i].exitPrice)

\* The profit the formula gives on the record's current fields.
FormulaProfit(r) ==
    Num(baseProfit(DirOf(r.directionTaken), r.entryPrice.v, r.exitPrice.v,
                   r.feePerUnit.v, r.size.v) * getMultiplier(r.symbol))

HasOperands(r) ==
    IsNum(r.entryPrice) /\ IsNum(r.exitPrice) /\ IsNum(r.feePerUnit)
    /\ IsNum(r.size)

\* C2: every record with hasResult = true has a profit equal to the value
\* the formula gives on its current entryPrice, exitPrice, size,
\* feePerUnit, directionTaken and symbol; editing the entry fields of a
\* closed record never leaves a profit that disagrees with them.
C2_ProfitAgreesWithFields ==
    \A i \in DOMAIN records :
        (records[i].hasResult /\ HasOperands(records[i])) =>
            records[i].profit = FormulaProfit(records[i])

\* C5 (stated for a record that already holds a result): judge-and-save
\* with an editing id set leaves the record's id, createdAt, hasResult,
\* datetimeExit, exitPrice, directionTaken, highDuringTrade,
\* lowDuringTrade, profit and result memo unchanged, leaves every other
\* record unchanged, and leaves the number of records unchanged.
C5_EditKeepsResultFields ==
    [][(last'.op = "judgeSave" /\ last'.edit /\ editingEntryId \in Ids(records)
        /\ RecordOf(records, editingEntryId).hasResult) =>
          /\ Len(records') = Len(records)
          /\ \A i \in DOMAIN records :
               IF records[i].id = editingEntryId
               THEN /\ records'[i].id = records[i].id
                    /\ records'[i].createdAt = records[i].createdAt
                    /\ records'[i].hasResult = records[i].hasResult
                    /\ records'[i].datetimeExit = records[i].datetimeExit
                    /\ records'[i].exitPrice = records[i].exitPrice
                    /\ records'[i].directionTaken = records[i].directionTaken
                    /\ records'[i].highDuringTrade = records[i].highDuringTrade
                    /\ records'[i].lowDuringTrade = records[i].lowDuringTrade
                    /\ records'[i].profit = records[i].profit
                    /\ records'[i].resultMemo = records[i].resultMemo
               ELSE records'[i] = records[i]]_vars

\* C9: a failed import is atomic: when the file cannot be parsed, the
\* envelope is invalid, or an error is raised while merging a malformed
\* element after earlier elements were merged, neither the in-memory nor
\* the persisted collection is changed.
C9_FailedImportIsAtomic ==
    [][(last'.op = "import" /\ ~last'.ok) =>
          (records' = records /\ stored' = stored)]_vars

\* C3: in every reachable state, the interval between a result-form
\* submit and the completion of its image read included, a record has
\* hasResult = false if and only if its datetimeExit, exitPrice,
\* highDuringTrade, lowDuringTrade and profit are all null.
C3_OpenIffNoResultFields ==
    \A i \in DOMAIN records :
        (~records[i].hasResult) <=>
            /\ records[i].datetimeExit = Null
            /\ records[i].exitPrice = Null
            /\ records[i].highDuringTrade = Null
            /\ records[i].lowDuringTrade = Null
            /\ records[i].profit = Null

\* C4: the profit stored by the result save on a closed record equals
\* (exitPrice - entryPrice - feePerUnit) * size * m when the direction
\* taken is long, (entryPrice - exitPrice - feePerUnit) * size * m when it
\* is short, and 0 otherwise, where m is 10 for nk225mc, 100 for nk225m,
\* 1000 for nk225 and 1 for any other symbol.
C4_ResultSaveStoresFormulaProfit ==
    (last.op = "saveResult" /\ last.ok /\ last.id \in Ids(stored)) =>
        LET r == RecordOf(stored, last.id)
        IN  (r.hasResult /\ HasOperands(r)) => r.profit = FormulaProfit(r)

\* C6: an import of a file whose envelope version is not exactly 1, or
\* whose records member is missing or not an array, is rejected, and the
\* in-memory and the persisted collection are the same before and after.
C6_BadEnvelopeIsRejected ==
    [][(last'.op = "import" /\ last'.arg \in {"array", "badEnvelope"}) =>
          (~last'.ok /\ records' = records /\ stored' = stored)]_vars

\* Every element of the file is a record.
AllRecords(items) == \A k \in DOMAIN items : ~IsNullElement(items[k])

\* No two elements of the file carry the same id.
DistinctIds(items) ==
    \A j, k \in DOMAIN items : items[j].id = items[k].id => j = k

\* C7: for a valid file, an incoming record whose id is absent is appended
\* and counted as added; one whose id is present replaces the stored
\* record if and only if its updatedAt is strictly newer; with an equal or
\* older updatedAt the stored record is unchanged; the added count is the
\* growth of the collection.
C7_ValidImportMerges ==
    [][(last'.op = "import" /\ last'.arg = "valid"
        /\ AllRecords(last'.items) /\ DistinctIds(last'.items)) =>
          /\ last'.ok
          /\ last'.added = Len(records') - Len(records)
          /\ \A k \in DOMAIN last'.items :
               LET rec == last'.items[k]
               IN  /\ rec.id \in Ids(records')
                   /\ RecordOf(records', rec.id) =
                        IF rec.id \notin Ids(records) THEN rec
                        ELSE IF rec.updatedAt
                                  > RecordOf(records, rec.id).updatedAt
                             THEN rec
                             ELSE RecordOf(records, rec.id)]_vars

\* C8: an import, accepted or rejected, never removes a record: every id
\* of the collection before the import is in the collection after it.
C8_ImportNeverRemoves ==
    [][(last'.op = "import") =>
          (Ids(records) \subseteq Ids(records')
           /\ Ids(stored) \subseteq Ids(stored'))]_vars

\* C10: judge and judge-and-save with a required field missing (entry
\* price, size, fee per unit, instrument or an indicator reading) have no
\* side effect: no record is created or modified, nothing is written to
\* storage, and the editing id is unchanged.
C10_MissingFieldHasNoEffect ==
    [][(last'.op \in {"judge", "judgeSave"} /\ last'.arg = "missing") =>
          (records' = records /\ stored' = stored
           /\ editingEntryId' = editingEntryId)]_vars

\* C11: judge-and-save with no editing id set appends exactly one new
\* record with a fresh id, createdAt = updatedAt, hasResult = false,
\* directionTaken equal to directionPlanned, null exit fields and a null
\* profit, and leaves the existing records unchanged.
C11_SaveAppendsOneOpenRecord ==
    [][(last'.op = "judgeSave" /\ last'.ok /\ ~last'.edit) =>
          /\ Len(records') = Len(records) + 1
          /\ \A i \in DOMAIN records : records'[i] = records[i]
          /\ LET r == records'[Len(records')]
             IN  /\ r.id \notin Ids(records)
                 /\ r.createdAt = r.updatedAt
                 /\ ~r.hasResult
                 /\ r.directionTaken = Str(r.directionPlanned)
                 /\ r.datetimeExit = Null
                 /\ r.exitPrice = Null
                 /\ r.highDuringTrade = Null
                 /\ r.lowDuringTrade = Null
                 /\ r.profit = Null]_vars

\* C12: the recommendation stored by a save is the engine's result against
\* the collection as it is at save time, whatever judge clicks and changes
\* came before; a prediction computed earlier is never the one stored.
C12_SnapshotIsComputedAtSave ==
    [][(last'.op = "judgeSave" /\ last'.ok /\ last'.id \in Ids(records')) =>
          RecordOf(records', last'.id).recommendation
              = Str(A_recommendationAlgorithm(records))]_vars

\* C13: load never throws and always yields an array: when the stored
\* value is absent, is not JSON, or parses to something that is not an
\* array, the collection in use afterwards is the empty array.
C13_LoadYieldsAnArray ==
    [][(last'.op = "load") =>
          /\ last'.ok
          /\ records' = IF stored.kind = "array" THEN stored ELSE Arr(<<>>)]_vars

\* C14: for every collection the application reaches, save followed by
\* load yields the same records, in the same order, with the same field
\* values.
C14_SaveThenLoadIsIdentity ==
    Stringify(records) = records

\* C15: a confirmed delete of a record removes exactly that record from
\* the in-memory collection and from the persisted store, and no other
\* record, in memory or in the store, is removed or modified; a declined
\* confirmation changes nothing.
C15_DeleteRemovesExactlyOne ==
    [][(last'.op = "delete") =>
          IF last'.ok
          THEN /\ records' = RemoveAt(records, IndexOf(records, last'.id))
               /\ last'.id \notin Ids(records')
               /\ last'.id \notin Ids(stored')
               /\ \A j \in DOMAIN stored :
                    stored[j].id # last'.id =>
                        \E k \in DOMAIN stored' : stored'[k] = stored[j]
          ELSE records' = records /\ stored' = stored]_vars

\* The confidence engine v returns for profile p on the history recs.
ConfidenceOf(v, p, recs) ==
    CASE v = "B" -> B_confidence(EngineEntry(p), recs)
      [] v = "C" -> C_confidence(p, recs)
      [] v = "D" -> D_confidence(EngineEntry(p), recs)
      [] OTHER -> E_confidence(EngineEntry(p), recs)

\* C16: on a collection with no closed record every engine recommends flat
\* with one fixed confidence, the one it returns on the empty collection,
\* whatever the candidate profile.
C16_NoClosedRecordIsFlatAndFixed ==
    (lastPrediction # Null /\ \A i \in DOMAIN records : ~records[i].hasResult)
       => /\ lastPrediction.recommendation = "flat"
          /\ lastPrediction.confidence
               = ConfidenceOf(lastPrediction.variant, P1, <<>>)

\* The history of PoolSize closed long winners that agree with P0 from
\* tier t on.
Pool(t) == [i \in 1..PoolSize |-> EngineClosed(i, TierProfile(t))]

\* C17: when three closed long winners are the match set and tier 1 has no
\* match, the tiered engine recommends long, and its confidence when they
\* are first found at tier 2 exceeds its confidence when they are first
\* found at tier 4.
C17_EarlierTierIsMoreConfident ==
    (/\ lastPrediction # Null
     /\ lastPrediction.variant \in {"B", "C"}
     /\ lastPrediction.ind = P0
     /\ records = Pool(2))
       => /\ lastPrediction.recommendation = "long"
          /\ lastPrediction.confidence
               > ConfidenceOf(lastPrediction.variant, P0, Pool(4))

\* C18: when no tier reaches the minimum sample size the tiered engine
\* uses the match set of the loosest tier, and when that set is empty and
\* the closed pool is not, it computes its statistics over the whole pool:
\* three closed long winners that agree with the candidate on the loosest
\* tier only, or on no tier at all, yield the recommendation long.
C18_EmptyMatchSetFallsBackToPool ==
    (/\ lastPrediction # Null
     /\ lastPrediction.variant \in {"B", "C"}
     /\ lastPrediction.ind = P0
     /\ records \in {Pool(5), Pool(6)})
       => lastPrediction.recommendation = "long"

\* The direction engine v recommends for profile p on the history recs.
RecommendationOf(v, p, recs) ==
    CASE v = "B" -> B_computePrediction(EngineEntry(p), recs)
      [] v = "C" -> C_predictTrade(p, recs)
      [] v = "D" -> D_judgeTrade(EngineEntry(p), recs)
      [] OTHER -> E_judgeTrade(EngineEntry(p), recs)

\* The closed records of a history.
ClosedOnly(recs) == SelectSeq(recs, LAMBDA r : r.hasResult)

\* C19: only closed records contribute to a recommendation: the engine's
\* result on a history is its result on the history without its open
\* records.
C19_OpenRecordsDoNotContribute ==
    lastPrediction # Null =>
       /\ lastPrediction.recommendation
            = RecommendationOf(lastPrediction.variant, lastPrediction.ind,
                               ClosedOnly(records))
       /\ lastPrediction.confidence
            = ConfidenceOf(lastPrediction.variant, lastPrediction.ind,
                           ClosedOnly(records))

\* C20: between two handlers the persisted collection is the in-memory
\* collection: every handler that mutates a record has written the mutated
\* collection to storage when it returns.
C20_StoreReflectsMemory == stored = Stringify(records)

\* C21: no two records of the collection share an id, and no operation
\* other than an import or a delete moves or changes the id of an existing
\* record; this holds after importing a file that carries an id twice.
C21_IdsAreUniqueAndImmutable ==
    [][/\ DistinctIds(records')
       /\ last'.op \notin {"import", "delete", "load"} =>
             /\ Len(records') >= Len(records)
             /\ \A i \in DOMAIN records : records'[i].id = records[i].id]_vars

C24_OneActiveSection ==
    tabs.clicked # "" =>
       /\ tabs.section = {tabs.clicked}
       /\ tabs.button = {tabs.clicked}

\* An edit handler has switched tabs after the user had chosen another.
C24_Witness ==
    /\ last.op = "selectExit"
    /\ tabs.clicked = "exit"
    /\ editingEntryId # 0

\* The instant a row is filtered by: its datetimeEntry, or its createdAt
\* when it has none.
EntryInstant(r) ==
    IF r.datetimeEntry # Null THEN r.datetimeEntry.v ELSE r.createdAt

\* C25: the date-range filter keeps exactly the rows entered on a day from
\* the start day to the end day, both included, at any time of the day; a
\* row without datetimeEntry is filtered by its createdAt.
C25_DateRangeIsInclusive ==
    (view # Null /\ view.filter.symbol = "") =>
       view.table =
          SelectSeq(records, LAMBDA r :
             /\ view.filter.start # 0 => DayOf(EntryInstant(r)) >= view.filter.start
             /\ view.filter.end # 0 => DayOf(EntryInstant(r)) <= view.filter.end)

\* The rows a variant keeps under a filter.
KeptBy(variant, f, recs) ==
    CASE variant = "B" -> B_buildTable(f, recs)
      [] variant = "C" -> C_applyFilters(f, recs)
      [] OTHER -> E_updateStats(f, recs)

\* C26: the rows kept under an instrument filter and a date range are the
\* rows kept under the instrument filter alone that are also kept under
\* the date range alone, and the charts are fed the rows of the table.
C26_FiltersIntersect ==
    view # Null =>
       LET f == view.filter
           bySymbol == KeptBy(view.variant, Filter(f.symbol, 0, 0), records)
           byDates == KeptBy(view.variant, Filter("", f.start, f.end), records)
       IN  /\ Ids(view.table) = Ids(bySymbol) \cap Ids(byDates)
           /\ view.chart = view.table

\* Both filters are set, each drops a row the other keeps, and nothing is
\* left.
C26_Witness ==
    /\ view # Null
    /\ view.filter.symbol # ""
    /\ view.filter.start # 0
    /\ view.table = <<>>
    /\ Len(KeptBy(view.variant, Filter(view.filter.symbol, 0, 0), records)) = 1
    /\ Len(KeptBy(view.variant, Filter("", view.filter.start, view.filter.end),
                  records)) = 1

\* The record a judge-and-save on the cleared form has to append, by the
\* variant's own judgeTrade and a minimum win rate of 30.
JudgedAtThirty(variant, rec, recs) ==
    LET entry == [rec EXCEPT !.minWinRate = Num(30)]
    IN  IF variant = "D" THEN D_judgeTrade(entry, recs)
        ELSE E_judgeTrade(entry, recs)

\* C27: after the clear button the editing id is unset, the image state is
\* empty and the minWinRate field holds 30; a judge-and-save right after it
\* appends a record, leaves the others as they are, and judges the new one
\* with a minimum win rate of 30.
C27_ClearResetsTheForm ==
    [][/\ last'.op = "entryClear" =>
             /\ editingEntryId' = 0
             /\ form'.image = Null
             /\ form'.minWinRate = Num(30)
       /\ (last.op = "entryClear" /\ last'.op = "judgeSave") =>
             /\ Len(records') = Len(records) + 1
             /\ SubSeq(records', 1, Len(records)) = records
             /\ records'[Len(records')].minWinRate = Num(30)
             /\ records'[Len(records')].recommendation =
                   Str(JudgedAtThirty(last'.arg, records'[Len(records')],
                                      records))]_vars

\* C28: a result save while no record is selected, or while the selected
\* id is not in the collection, changes neither the records nor the stored
\* collection.
C28_ResultSaveWithoutSelectionIsInert ==
    [][(/\ last'.op = "saveResult"
        /\ editingExitId = 0 \/ IndexOf(records, editingExitId) = 0)
          => (records' = records /\ stored' = stored)]_vars

\* The save button was pressed with records in the collection and none of
\* them selected.
C28_Witness ==
    /\ last.op = "saveResult"
    /\ ~last.ok
    /\ editingExitId = 0
    /\ records # <<>>

\* The levels of the tiered engines, their minimum sample size and their
\* pool, by variant.
TierLevels(variant) == IF variant = "B" THEN B_levels ELSE C_levels
TierMinimum(variant) == IF variant = "B" THEN B_MinSamples ELSE C_EnoughSamples
TierPool(variant, recs) ==
    IF variant = "B" THEN {i \in DOMAIN recs : recs[i].hasResult}
    ELSE DOMAIN recs
ExactMatches(variant, p, recs, l) ==
    {i \in TierPool(variant, recs) :
        \A k \in TierLevels(variant)[l] : recs[i].ind[k] = p[k]}

\* C29: the level used is the lowest level whose exact matches over the
\* pool reach the minimum sample size, or level 5 when none does, and the
\* engine works on the matches of that level.
C29_LowestSufficientTier ==
    (lastPrediction # Null /\ lastPrediction.variant \in {"B", "C"}) =>
       LET v == lastPrediction.variant
           n(l) == Cardinality(ExactMatches(v, lastPrediction.ind, records, l))
           reached == {l \in 1..5 : n(l) >= TierMinimum(v)}
           expected == IF reached = {} THEN 5
                       ELSE CHOOSE l \in reached : \A j \in reached : l <= j
       IN  /\ lastPrediction.level = expected
           /\ lastPrediction.matched =
                 ExactMatches(v, lastPrediction.ind, records, expected)

\* predictTrade passed over a level that had matches, too few of them, and
\* stopped at a later level that is not the last.
C29_Witness ==
    /\ lastPrediction # Null
    /\ lastPrediction.variant = "C"
    /\ lastPrediction.level \in 2..4
    /\ ExactMatches("C", lastPrediction.ind, records, 1) # {}
    /\ Cardinality(lastPrediction.matched) >= C_EnoughSamples

\* The closed cases a variant counts as similar to the entry.
SimilarCases(variant, entry, recs) ==
    IF variant = "D"
    THEN {i \in DOMAIN recs :
            /\ recs[i].symbol = entry.symbol
            /\ recs[i].hasResult
            /\ D_matches(entry, recs[i]) * 2 >= NumFeatures}
    ELSE {i \in DOMAIN recs :
            /\ recs[i].hasResult
            /\ E_matches(entry, recs[i]) * 10 >= 4 * NumFeatures}

\* C30: the recommendation is a direction of highest win rate among the
\* similar closed cases whenever that rate reaches the entry's minWinRate;
\* it is flat only when no similar case has a direction or the highest
\* rate is below minWinRate; a recommended direction has a similar case.
C30_GatedByMinWinRate ==
    lastPrediction # Null =>
       LET entry == lastPrediction.entry
           rec == lastPrediction.recommendation
           similar == SimilarCases(lastPrediction.variant, entry, records)
           group(d) == {i \in similar : records[i].directionTaken = Str(d)}
           count(d) == Cardinality(group(d))
           wins(d) == Cardinality({i \in group(d) :
                                      Positive(records[i].profit)})
           cands == {d \in {"long", "short"} : count(d) > 0}
           top(d) == \A e \in cands : wins(d) * count(e) >= wins(e) * count(d)
           threshold == IF IsNum(entry.minWinRate) THEN entry.minWinRate.v
                        ELSE 0
           meets(d) == wins(d) * 100 >= threshold * count(d)
       IN  /\ (\E d \in cands : top(d) /\ meets(d)) => (rec \in cands /\ top(rec))
           /\ rec = "flat" =>
                 (cands = {} \/ \A d \in cands : top(d) => ~meets(d))
           /\ rec \in {"long", "short"} => count(rec) > 0

\* C31: the expected move an engine returns is null or not negative.
C31_ExpectedMoveIsNotNegative ==
    lastPrediction # Null =>
       \/ lastPrediction.expectedMove = Null
       \/ lastPrediction.expectedMove.v >= 0

\* The records of the entry's instrument.
SameSymbol(entry, recs) == SelectSeq(recs, LAMBDA r : r.symbol = entry.symbol)

C33_PreviewAgreesWithSavedProfit ==
    [][(last'.op = "saveResult" /\ last'.ok /\ view # Null) =>
          LET saved == records'[IndexOf(records', last'.id)].profit
          IN  \/ view.shown = saved
              \/ view.shown = Empty /\ saved = Null]_vars

\* C34: the cumulative series has one point per closed record, and there
\* is an order of the closed records by entry time, ascending, in which
\* its k-th value is the sum of the first k profits; its last value is
\* then the total profit of the closed records.
C34_CumulativeSeries ==
    view # Null =>
       LET closed == SelectSeq(records, LAMBDA r : r.hasResult)
       IN  /\ Len(view.series) = Len(closed)
           /\ \E p \in Orders(closed, EntryInstant) :
                 view.series =
                    Cumulative([k \in DOMAIN closed |-> closed[p[k]]])

\* C35: once no read is in flight the form holds the image of the latest
\* selection (none after the input was cleared or the form reset), and a
\* record saved with an image has the image selected since the last reset.
C35_OnlyLatestImageApplies ==
    [][/\ pending' = <<>> => form'.currentImageData = form'.latest
       /\ (last'.op = "judgeSave" /\ Len(records') > Len(records)) =>
             records'[Len(records')].imageData \in {Null, form.latest}]_vars

\* C36: isRecording is true exactly when a started recognition session has
\* not ended, and the record button shows the stop label exactly when
\* isRecording is true.
C36_RecordingStateIsConsistent ==
    /\ form.isRecording <=>
          (\E i \in DOMAIN form.sessions : form.sessions[i] # "ended")
    /\ form.label = "stop" <=> form.isRecording

\* C37: a judge-and-save that passes validation appends one record or
\* updates one existing record, stamped with the time of the save, and
\* leaves every other record as it was; it never drops the submission.
C37_SaveNeverDiscards ==
    [][(last'.op = "judgeSave" /\ last'.ok) =>
          \/ /\ Len(records') = Len(records) + 1
             /\ records'[Len(records')].id = last'.id
             /\ records'[Len(records')].updatedAt = now'
             /\ \A j \in DOMAIN records : records'[j] = records[j]
          \/ /\ Len(records') = Len(records)
             /\ \E i \in DOMAIN records :
                   /\ records[i].id = last'.id
                   /\ records'[i].id = last'.id
                   /\ records'[i].updatedAt = now'
                   /\ \A j \in DOMAIN records \ {i} :
                         records'[j] = records[j]]_vars

\* C38: the import of the file that an export of the present collection
\* writes succeeds, adds and updates nothing and leaves the collection as
\* it is; and the import of the file that was imported just before leaves
\* the collection as the first import left it.
C38_ExportImportIsNoOp ==
    [][/\ ( /\ last'.op = "import"
            /\ last'.arg = FileClass(IF form.variant = "D"
                                     THEN D_exportJSON(records)
                                     ELSE E_exportRecords(records))
            /\ last'.items = Stringify(records) ) =>
             /\ last'.ok
             /\ last'.added = 0
             /\ last'.updated = 0
             /\ records' = records
       /\ ( /\ last.op = "import"
            /\ last'.op = "import"
            /\ last'.arg = last.arg
            /\ last'.items = last.items ) =>
             records' = records]_vars

\* C39: an entry that is opened for editing and saved next, no image file
\* being selected in between, keeps the imageData it had.
C39_EditKeepsImage ==
    [][( /\ last.op = "editEntry"
         /\ last'.op = "judgeSave"
         /\ last'.edit
         /\ last'.id = last.id ) =>
          /\ IndexOf(records', last.id) # 0
          /\ records'[IndexOf(records', last.id)].imageData
                = records[IndexOf(records, last.id)].imageData]_vars

============================================================================
